---- MODULE Spec2Model ----
\* A model of the pandora-api crate's JSON session layer: the Blowfish codec
\* (json/crypt.rs), the session tokens and the request builder (json/mod.rs),
\* the response envelope and the error table (json/mod.rs, json/errors.rs).
EXTENDS Integers, Sequences, FiniteSets, TLC

\* Initial P-array: the first 18 words of the fractional hex digits of pi, big-endian bytes.
PiP ==
  << <<36,63,106,136>>, <<133,163,8,211>>, <<19,25,138,46>>, <<3,112,115,68>>, <<164,9,56,34>>, <<41,159,49,208>>,
     <<8,46,250,152>>, <<236,78,108,137>>, <<69,40,33,230>>, <<56,208,19,119>>, <<190,84,102,207>>, <<52,233,12,108>>,
     <<192,172,41,183>>, <<201,124,80,221>>, <<63,132,213,181>>, <<181,71,9,23>>, <<146,22,213,217>>, <<137,121,251,27>> >>

\* Initial S-box 0: the next 256 words of the hex digits of pi.
PiS0 ==
  << <<209,49,11,166>>, <<152,223,181,172>>, <<47,253,114,219>>, <<208,26,223,183>>, <<184,225,175,237>>, <<106,38,126,150>>,
     <<186,124,144,69>>, <<241,44,127,153>>, <<36,161,153,71>>, <<179,145,108,247>>, <<8,1,242,226>>, <<133,142,252,22>>,
     <<99,105,32,216>>, <<113,87,78,105>>, <<164,88,254,163>>, <<244,147,61,126>>, <<13,149,116,143>>, <<114,142,182,88>>,
     <<113,139,205,88>>, <<130,21,74,238>>, <<123,84,164,29>>, <<194,90,89,181>>, <<156,48,213,57>>, <<42,242,96,19>>,
     <<197,209,176,35>>, <<40,96,133,240>>, <<202,65,121,24>>, <<184,219,56,239>>, <<142,121,220,176>>, <<96,58,24,14>>,
     <<108,158,14,139>>, <<176,30,138,62>>, <<215,21,119,193>>, <<189,49,75,39>>, <<120,175,47,218>>, <<85,96,92,96>>,
     <<230,85,37,243>>, <<170,85,171,148>>, <<87,72,152,98>>, <<99,232,20,64>>, <<85,202,57,106>>, <<42,171,16,182>>,
     <<180,204,92,52>>, <<17,65,232,206>>, <<161,84,134,175>>, <<124,114,233,147>>, <<179,238,20,17>>, <<99,111,188,42>>,
     <<43,169,197,93>>, <<116,24,49,246>>, <<206,92,62,22>>, <<155,135,147,30>>, <<175,214,186,51>>, <<108,36,207,92>>,
     <<122,50,83,129>>, <<40,149,134,119>>, <<59,143,72,152>>, <<107,75,185,175>>, <<196,191,232,27>>, <<102,40,33,147>>,
     <<97,216,9,204>>, <<251,33,169,145>>, <<72,124,172,96>>, <<93,236,128,50>>, <<239,132,93,93>>, <<233,133,117,177>>,
     <<220,38,35,2>>, <<235,101,27,136>>, <<35,137,62,129>>, <<211,150,172,197>>, <<15,109,111,243>>, <<131,244,66,57>>,
     <<46,11,68,130>>, <<164,132,32,4>>, <<105,200,240,74>>, <<158,31,155,94>>, <<33,198,104,66>>, <<246,233,108,154>>,
     <<103,12,156,97>>, <<171,211,136,240>>, <<106,81,160,210>>, <<216,84,47,104>>, <<150,15,167,40>>, <<171,81,51,163>>,
     <<110,239,11,108>>, <<19,122,59,228>>, <<186,59,240,80>>, <<126,251,42,152>>, <<161,241,101,29>>, <<57,175,1,118>>,
     <<102,202,89,62>>, <<130,67,14,136>>, <<140,238,134,25>>, <<69,111,159,180>>, <<125,132,165,195>>, <<59,139,94,190>>,
     <<224,111,117,216>>, <<133,193,32,115>>, <<64,26,68,159>>, <<86,193,106,166>>, <<78,211,170,98>>, <<54,63,119,6>>,
     <<27,254,223,114>>, <<66,155,2,61>>, <<55,208,215,36>>, <<208,10,18,72>>, <<219,15,234,211>>, <<73,241,192,155>>,
     <<7,83,114,201>>, <<128,153,27,123>>, <<37,212,121,216>>, <<246,232,222,247>>, <<227,254,80,26>>, <<182,121,76,59>>,
     <<151,108,224,189>>, <<4,192,6,186>>, <<193,169,79,182>>, <<64,159,96,196>>, <<94,92,158,194>>, <<25,106,36,99>>,
     <<104,251,111,175>>, <<62,108,83,181>>, <<19,57,178,235>>, <<59,82,236,111>>, <<109,252,81,31>>, <<155,48,149,44>>,
     <<204,129,69,68>>, <<175,94,189,9>>, <<190,227,208,4>>, <<222,51,74,253>>, <<102,15,40,7>>, <<25,46,75,179>>,
     <<192,203,168,87>>, <<69,200,116,15>>, <<210,11,95,57>>, <<185,211,251,219>>, <<85,121,192,189>>, <<26,96,50,10>>,
     <<214,161,0,198>>, <<64,44,114,121>>, <<103,159,37,254>>, <<251,31,163,204>>, <<142,165,233,248>>, <<219,50,34,248>>,
     <<60,117,22,223>>, <<253,97,107,21>>, <<47,80,30,200>>, <<173,5,82,171>>, <<50,61,181,250>>, <<253,35,135,96>>,
     <<83,49,123,72>>, <<62,0,223,130>>, <<158,92,87,187>>, <<202,111,140,160>>, <<26,135,86,46>>, <<223,23,105,219>>,
     <<213,66,168,246>>, <<40,126,255,195>>, <<172,103,50,198>>, <<140,79,85,115>>, <<105,91,39,176>>, <<187,202,88,200>>,
     <<225,255,163,93>>, <<184,240,17,160>>, <<16,250,61,152>>, <<253,33,131,184>>, <<74,252,181,108>>, <<45,209,211,91>>,
     <<154,83,228,121>>, <<182,248,69,101>>, <<210,142,73,188>>, <<75,251,151,144>>, <<225,221,242,218>>, <<164,203,126,51>>,
     <<98,251,19,65>>, <<206,228,198,232>>, <<239,32,202,218>>, <<54,119,76,1>>, <<208,126,158,254>>, <<43,241,31,180>>,
     <<149,219,218,77>>, <<174,144,145,152>>, <<234,173,142,113>>, <<107,147,213,160>>, <<208,142,209,208>>, <<175,199,37,224>>,
     <<142,60,91,47>>, <<142,117,148,183>>, <<143,246,226,251>>, <<242,18,43,100>>, <<136,136,184,18>>, <<144,13,240,28>>,
     <<79,173,94,160>>, <<104,143,195,28>>, <<209,207,241,145>>, <<179,168,193,173>>, <<47,47,34,24>>, <<190,14,23,119>>,
     <<234,117,45,254>>, <<139,2,31,161>>, <<229,160,204,15>>, <<181,111,116,232>>, <<24,172,243,214>>, <<206,137,226,153>>,
     <<180,168,79,224>>, <<253,19,224,183>>, <<124,196,59,129>>, <<210,173,168,217>>, <<22,95,162,102>>, <<128,149,119,5>>,
     <<147,204,115,20>>, <<33,26,20,119>>, <<230,173,32,101>>, <<119,181,250,134>>, <<199,84,66,245>>, <<251,157,53,207>>,
     <<235,205,175,12>>, <<123,62,137,160>>, <<214,65,27,211>>, <<174,30,126,73>>, <<0,37,14,45>>, <<32,113,179,94>>,
     <<34,104,0,187>>, <<87,184,224,175>>, <<36,100,54,155>>, <<240,9,185,30>>, <<85,99,145,29>>, <<89,223,166,170>>,
     <<120,193,67,137>>, <<217,90,83,127>>, <<32,125,91,162>>, <<2,229,185,197>>, <<131,38,3,118>>, <<98,149,207,169>>,
     <<17,200,25,104>>, <<78,115,74,65>>, <<179,71,45,202>>, <<123,20,169,74>>, <<27,81,0,82>>, <<154,83,41,21>>,
     <<214,15,87,63>>, <<188,155,198,228>>, <<43,96,164,118>>, <<129,230,116,0>>, <<8,186,111,181>>, <<87,27,233,31>>,
     <<242,150,236,107>>, <<42,13,217,21>>, <<182,99,101,33>>, <<231,185,249,182>>, <<255,52,5,46>>, <<197,133,86,100>>,
     <<83,176,45,93>>, <<169,159,143,161>>, <<8,186,71,153>>, <<110,133,7,106>> >>

\* Initial S-box 1: the next 256 words of the hex digits of pi.
PiS1 ==
  << <<75,122,112,233>>, <<181,179,41,68>>, <<219,117,9,46>>, <<196,25,38,35>>, <<173,110,166,176>>, <<73,167,223,125>>,
     <<156,238,96,184>>, <<143,237,178,102>>, <<236,170,140,113>>, <<105,154,23,255>>, <<86,100,82,108>>, <<194,177,158,225>>,
     <<25,54,2,165>>, <<117,9,76,41>>, <<160,89,19,64>>, <<228,24,58,62>>, <<63,84,152,154>>, <<91,66,157,101>>,
     <<107,143,228,214>>, <<153,247,63,214>>, <<161,210,156,7>>, <<239,232,48,245>>, <<77,45,56,230>>, <<240,37,93,193>>,
     <<76,221,32,134>>, <<132,112,235,38>>, <<99,130,233,198>>, <<2,30,204,94>>, <<9,104,107,63>>, <<62,186,239,201>>,
     <<60,151,24,20>>, <<107,106,112,161>>, <<104,127,53,132>>, <<82,160,226,134>>, <<183,156,83,5>>, <<170,80,7,55>>,
     <<62,7,132,28>>, <<127,222,174,92>>, <<142,125,68,236>>, <<87,22,242,184>>, <<176,58,218,55>>, <<240,80,12,13>>,
     <<240,28,31,4>>, <<2,0,179,255>>, <<174,12,245,26>>, <<60,181,116,178>>, <<37,131,122,88>>, <<220,9,33,189>>,
     <<209,145,19,249>>, <<124,169,47,246>>, <<148,50,71,115>>, <<34,245,71,1>>, <<58,229,229,129>>, <<55,194,218,220>>,
     <<200,181,118,52>>, <<154,243,221,167>>, <<169,68,97,70>>, <<15,208,3,14>>, <<236,200,199,62>>, <<164,117,30,65>>,
     <<226,56,205,153>>, <<59,234,14,47>>, <<50,128,187,161>>, <<24,62,179,49>>, <<78,84,139,56>>, <<79,109,185,8>>,
     <<111,66,13,3>>, <<246,10,4,191>>, <<44,184,18,144>>, <<36,151,124,121>>, <<86,121,176,114>>, <<188,175,137,175>>,
     <<222,154,119,31>>, <<217,147,8,16>>, <<179,139,174,18>>, <<220,207,63,46>>, <<85,18,114,31>>, <<46,107,113,36>>,
     <<80,26,221,230>>, <<159,132,205,135>>, <<122,88,71,24>>, <<116,8,218,23>>, <<188,159,154,188>>, <<233,75,125,140>>,
     <<236,122,236,58>>, <<219,133,29,250>>, <<99,9,67,102>>, <<196,100,195,210>>, <<239,28,24,71>>, <<50,21,217,8>>,
     <<221,67,59,55>>, <<36,194,186,22>>, <<18,161,77,67>>, <<42,101,196,81>>, <<80,148,0,2>>, <<19,58,228,221>>,
     <<113,223,248,158>>, <<16,49,78,85>>, <<129,172,119,214>>, <<95,17,25,155>>, <<4,53,86,241>>, <<215,163,199,107>>,
     <<60,17,24,59>>, <<89,36,165,9>>, <<242,143,230,237>>, <<151,241,251,250>>, <<158,186,191,44>>, <<30,21,60,110>>,
     <<134,227,69,112>>, <<234,233,111,177>>, <<134,14,94,10>>, <<90,62,42,179>>, <<119,31,231,28>>, <<78,61,6,250>>,
     <<41,101,220,185>>, <<153,231,29,15>>, <<128,62,137,214>>, <<82,102,200,37>>, <<46,76,201,120>>, <<156,16,179,106>>,
     <<198,21,14,186>>, <<148,226,234,120>>, <<165,252,60,83>>, <<30,10,45,244>>, <<242,247,78,167>>, <<54,29,43,61>>,
     <<25,57,38,15>>, <<25,194,121,96>>, <<82,35,167,8>>, <<247,19,18,182>>, <<235,173,254,110>>, <<234,195,31,102>>,
     <<227,188,69,149>>, <<166,123,200,131>>, <<177,127,55,209>>, <<1,140,255,40>>, <<195,50,221,239>>, <<190,108,90,165>>,
     <<101,88,33,133>>, <<104,171,152,2>>, <<238,206,165,15>>, <<219,47,149,59>>, <<42,239,125,173>>, <<91,110,47,132>>,
     <<21,33,182,40>>, <<41,7,97,112>>, <<236,221,71,117>>, <<97,159,21,16>>, <<19,204,168,48>>, <<235,97,189,150>>,
     <<3,52,254,30>>, <<170,3,99,207>>, <<181,115,92,144>>, <<76,112,162,57>>, <<213,158,158,11>>, <<203,170,222,20>>,
     <<238,204,134,188>>, <<96,98,44,167>>, <<156,171,92,171>>, <<178,243,132,110>>, <<100,139,30,175>>, <<25,189,240,202>>,
     <<160,35,105,185>>, <<101,90,187,80>>, <<64,104,90,50>>, <<60,42,180,179>>, <<49,158,233,213>>, <<192,33,184,247>>,
     <<155,84,11,25>>, <<135,95,160,153>>, <<149,247,153,126>>, <<98,61,125,168>>, <<248,55,136,154>>, <<151,227,45,119>>,
     <<17,237,147,95>>, <<22,104,18,129>>, <<14,53,136,41>>, <<199,230,31,214>>, <<150,222,223,161>>, <<120,88,186,153>>,
     <<87,245,132,165>>, <<27,34,114,99>>, <<155,131,195,255>>, <<26,194,70,150>>, <<205,179,10,235>>, <<83,46,48,84>>,
     <<143,217,72,228>>, <<109,188,49,40>>, <<88,235,242,239>>, <<52,198,255,234>>, <<254,40,237,97>>, <<238,124,60,115>>,
     <<93,74,20,217>>, <<232,100,183,227>>, <<66,16,93,20>>, <<32,62,19,224>>, <<69,238,226,182>>, <<163,170,171,234>>,
     <<219,108,79,21>>, <<250,203,79,208>>, <<199,66,244,66>>, <<239,106,187,181>>, <<101,79,59,29>>, <<65,205,33,5>>,
     <<216,30,121,158>>, <<134,133,77,199>>, <<228,75,71,106>>, <<61,129,98,80>>, <<207,98,161,242>>, <<91,141,38,70>>,
     <<252,136,131,160>>, <<193,199,182,163>>, <<127,21,36,195>>, <<105,203,116,146>>, <<71,132,138,11>>, <<86,146,178,133>>,
     <<9,91,191,0>>, <<173,25,72,157>>, <<20,98,177,116>>, <<35,130,14,0>>, <<88,66,141,42>>, <<12,85,245,234>>,
     <<29,173,244,62>>, <<35,63,112,97>>, <<51,114,240,146>>, <<141,147,126,65>>, <<214,95,236,241>>, <<108,34,59,219>>,
     <<124,222,55,89>>, <<203,238,116,96>>, <<64,133,242,167>>, <<206,119,50,110>>, <<166,7,128,132>>, <<25,248,80,158>>,
     <<232,239,216,85>>, <<97,217,151,53>>, <<169,105,167,170>>, <<197,12,6,194>>, <<90,4,171,252>>, <<128,11,202,220>>,
     <<158,68,122,46>>, <<195,69,52,132>>, <<253,213,103,5>>, <<14,30,158,201>>, <<219,115,219,211>>, <<16,85,136,205>>,
     <<103,95,218,121>>, <<227,103,67,64>>, <<197,196,52,101>>, <<113,62,56,216>>, <<61,40,248,158>>, <<241,109,255,32>>,
     <<21,62,33,231>>, <<143,176,61,74>>, <<230,227,159,43>>, <<219,131,173,247>> >>

\* Initial S-box 2: the next 256 words of the hex digits of pi.
PiS2 ==
  << <<233,61,90,104>>, <<148,129,64,247>>, <<246,76,38,28>>, <<148,105,41,52>>, <<65,21,32,247>>, <<118,2,212,247>>,
     <<188,244,107,46>>, <<212,162,0,104>>, <<212,8,36,113>>, <<51,32,244,106>>, <<67,183,212,183>>, <<80,0,97,175>>,
     <<30,57,246,46>>, <<151,36,69,70>>, <<20,33,79,116>>, <<191,139,136,64>>, <<77,149,252,29>>, <<150,181,145,175>>,
     <<112,244,221,211>>, <<102,160,47,69>>, <<191,188,9,236>>, <<3,189,151,133>>, <<127,172,109,208>>, <<49,203,133,4>>,
     <<150,235,39,179>>, <<85,253,57,65>>, <<218,37,71,230>>, <<171,202,10,154>>, <<40,80,120,37>>, <<83,4,41,244>>,
     <<10,44,134,218>>, <<233,182,109,251>>, <<104,220,20,98>>, <<215,72,105,0>>, <<104,14,192,164>>, <<39,161,141,238>>,
     <<79,63,254,162>>, <<232,135,173,140>>, <<181,140,224,6>>, <<122,244,214,182>>, <<170,206,30,124>>, <<211,55,95,236>>,
     <<206,120,163,153>>, <<64,107,42,66>>, <<32,254,158,53>>, <<217,243,133,185>>, <<238,57,215,171>>, <<59,18,78,139>>,
     <<29,201,250,247>>, <<75,109,24,86>>, <<38,163,102,49>>, <<234,227,151,178>>, <<58,110,250,116>>, <<221,91,67,50>>,
     <<104,65,231,247>>, <<202,120,32,251>>, <<251,10,245,78>>, <<216,254,179,151>>, <<69,64,86,172>>, <<186,72,149,39>>,
     <<85,83,58,58>>, <<32,131,141,135>>, <<254,107,169,183>>, <<208,150,149,75>>, <<85,168,103,188>>, <<161,21,154,88>>,
     <<204,169,41,99>>, <<153,225,219,51>>, <<166,42,74,86>>, <<63,49,37,249>>, <<94,244,126,28>>, <<144,41,49,124>>,
     <<253,248,232,2>>, <<4,39,47,112>>, <<128,187,21,92>>, <<5,40,44,227>>, <<149,193,21,72>>, <<228,198,109,34>>,
     <<72,193,19,63>>, <<199,15,134,220>>, <<7,249,201,238>>, <<65,4,31,15>>, <<64,71,121,164>>, <<93,136,110,23>>,
     <<50,95,81,235>>, <<213,155,192,209>>, <<242,188,193,143>>, <<65,17,53,100>>, <<37,123,120,52>>, <<96,42,156,96>>,
     <<223,248,232,163>>, <<31,99,108,27>>, <<14,18,180,194>>, <<2,225,50,158>>, <<175,102,79,209>>, <<202,209,129,21>>,
     <<107,35,149,224>>, <<51,62,146,225>>, <<59,36,11,98>>, <<238,190,185,34>>, <<133,178,162,14>>, <<230,186,13,153>>,
     <<222,114,12,140>>, <<45,162,247,40>>, <<208,18,120,69>>, <<149,183,148,253>>, <<100,125,8,98>>, <<231,204,245,240>>,
     <<84,73,163,111>>, <<135,125,72,250>>, <<195,157,253,39>>, <<243,62,141,30>>, <<10,71,99,65>>, <<153,46,255,116>>,
     <<58,111,110,171>>, <<244,248,253,55>>, <<168,18,220,96>>, <<161,235,221,248>>, <<153,27,225,76>>, <<219,110,107,13>>,
     <<198,123,85,16>>, <<109,103,44,55>>, <<39,101,212,59>>, <<220,208,232,4>>, <<241,41,13,199>>, <<204,0,255,163>>,
     <<181,57,15,146>>, <<105,15,237,11>>, <<102,123,159,251>>, <<206,219,125,156>>, <<160,145,207,11>>, <<217,21,94,163>>,
     <<187,19,47,136>>, <<81,91,173,36>>, <<123,148,121,191>>, <<118,59,214,235>>, <<55,57,46,179>>, <<204,17,89,121>>,
     <<128,38,226,151>>, <<244,46,49,45>>, <<104,66,173,167>>, <<198,106,43,59>>, <<18,117,76,204>>, <<120,46,241,28>>,
     <<106,18,66,55>>, <<183,146,81,231>>, <<6,161,187,230>>, <<75,251,99,80>>, <<26,107,16,24>>, <<17,202,237,250>>,
     <<61,37,189,216>>, <<226,225,195,201>>, <<68,66,22,89>>, <<10,18,19,134>>, <<217,12,236,110>>, <<213,171,234,42>>,
     <<100,175,103,78>>, <<218,134,168,95>>, <<190,191,233,136>>, <<100,228,195,254>>, <<157,188,128,87>>, <<240,247,192,134>>,
     <<96,120,123,248>>, <<96,3,96,77>>, <<209,253,131,70>>, <<246,56,31,176>>, <<119,69,174,4>>, <<215,54,252,204>>,
     <<131,66,107,51>>, <<240,30,171,113>>, <<176,128,65,135>>, <<60,0,94,95>>, <<119,160,87,190>>, <<189,232,174,36>>,
     <<85,70,66,153>>, <<191,88,46,97>>, <<78,88,244,143>>, <<242,221,253,162>>, <<244,116,239,56>>, <<135,137,189,194>>,
     <<83,102,249,195>>, <<200,179,142,116>>, <<180,117,242,85>>, <<70,252,217,185>>, <<122,235,38,97>>, <<139,29,223,132>>,
     <<132,106,14,121>>, <<145,95,149,226>>, <<70,110,89,142>>, <<32,180,87,112>>, <<140,213,85,145>>, <<201,2,222,76>>,
     <<185,11,172,225>>, <<187,130,5,208>>, <<17,168,98,72>>, <<117,116,169,158>>, <<183,127,25,182>>, <<224,169,220,9>>,
     <<102,45,9,161>>, <<196,50,70,51>>, <<232,90,31,2>>, <<9,240,190,140>>, <<74,153,160,37>>, <<29,110,254,16>>,
     <<26,185,61,29>>, <<11,165,164,223>>, <<161,134,242,15>>, <<40,104,241,105>>, <<220,183,218,131>>, <<87,57,6,254>>,
     <<161,226,206,155>>, <<79,205,127,82>>, <<80,17,94,1>>, <<167,6,131,250>>, <<160,2,181,196>>, <<13,230,208,39>>,
     <<154,248,140,39>>, <<119,63,134,65>>, <<195,96,76,6>>, <<97,168,6,181>>, <<240,23,122,40>>, <<192,245,134,224>>,
     <<0,96,88,170>>, <<48,220,125,98>>, <<17,230,158,215>>, <<35,56,234,99>>, <<83,194,221,148>>, <<194,194,22,52>>,
     <<187,203,238,86>>, <<144,188,182,222>>, <<235,252,125,161>>, <<206,89,29,118>>, <<111,5,228,9>>, <<75,124,1,136>>,
     <<57,114,10,61>>, <<124,146,124,36>>, <<134,227,114,95>>, <<114,77,157,185>>, <<26,193,91,180>>, <<211,158,184,252>>,
     <<237,84,85,120>>, <<8,252,165,181>>, <<216,61,124,211>>, <<77,173,15,196>>, <<30,80,239,94>>, <<177,97,230,248>>,
     <<162,133,20,217>>, <<108,81,19,60>>, <<111,213,199,231>>, <<86,225,78,196>>, <<54,42,191,206>>, <<221,198,200,55>>,
     <<215,154,50,52>>, <<146,99,130,18>>, <<103,14,250,142>>, <<64,96,0,224>> >>

\* Initial S-box 3: the next 256 words of the hex digits of pi.
PiS3 ==
  << <<58,57,206,55>>, <<211,250,245,207>>, <<171,194,119,55>>, <<90,197,45,27>>, <<92,176,103,158>>, <<79,163,55,66>>,
     <<211,130,39,64>>, <<153,188,155,190>>, <<213,17,142,157>>, <<191,15,115,21>>, <<214,45,28,126>>, <<199,0,196,123>>,
     <<183,140,27,107>>, <<33,161,144,69>>, <<178,110,177,190>>, <<106,54,110,180>>, <<87,72,171,47>>, <<188,148,110,121>>,
     <<198,163,118,210>>, <<101,73,194,200>>, <<83,15,248,238>>, <<70,141,222,125>>, <<213,115,10,29>>, <<76,208,77,198>>,
     <<41,57,187,219>>, <<169,186,70,80>>, <<172,149,38,232>>, <<190,94,227,4>>, <<161,250,213,240>>, <<106,45,81,154>>,
     <<99,239,140,226>>, <<154,134,238,34>>, <<192,137,194,184>>, <<67,36,46,246>>, <<165,30,3,170>>, <<156,242,208,164>>,
     <<131,192,97,186>>, <<155,233,106,77>>, <<143,229,21,80>>, <<186,100,91,214>>, <<40,38,162,249>>, <<167,58,58,225>>,
     <<75,169,149,134>>, <<239,85,98,233>>, <<199,47,239,211>>, <<247,82,247,218>>, <<63,4,111,105>>, <<119,250,10,89>>,
     <<128,228,169,21>>, <<135,176,134,1>>, <<155,9,230,173>>, <<59,62,229,147>>, <<233,144,253,90>>, <<158,52,215,151>>,
     <<44,240,183,217>>, <<2,43,139,81>>, <<150,213,172,58>>, <<1,125,166,125>>, <<209,207,62,214>>, <<124,125,45,40>>,
     <<31,159,37,207>>, <<173,242,184,155>>, <<90,214,180,114>>, <<90,136,245,76>>, <<224,41,172,113>>, <<224,25,165,230>>,
     <<71,176,172,253>>, <<237,147,250,155>>, <<232,211,196,141>>, <<40,59,87,204>>, <<248,213,102,41>>, <<121,19,46,40>>,
     <<120,95,1,145>>, <<237,117,96,85>>, <<247,150,14,68>>, <<227,211,94,140>>, <<21,5,109,212>>, <<136,244,109,186>>,
     <<3,161,97,37>>, <<5,100,240,189>>, <<195,235,158,21>>, <<60,144,87,162>>, <<151,39,26,236>>, <<169,58,7,42>>,
     <<27,63,109,155>>, <<30,99,33,245>>, <<245,156,102,251>>, <<38,220,243,25>>, <<117,51,217,40>>, <<177,85,253,245>>,
     <<3,86,52,130>>, <<138,186,60,187>>, <<40,81,119,17>>, <<194,10,217,248>>, <<171,204,81,103>>, <<204,173,146,95>>,
     <<77,232,23,81>>, <<56,48,220,142>>, <<55,157,88,98>>, <<147,32,249,145>>, <<234,122,144,194>>, <<251,62,123,206>>,
     <<81,33,206,100>>, <<119,79,190,50>>, <<168,182,227,126>>, <<195,41,61,70>>, <<72,222,83,105>>, <<100,19,230,128>>,
     <<162,174,8,16>>, <<221,109,178,36>>, <<105,133,45,253>>, <<9,7,33,102>>, <<179,154,70,10>>, <<100,69,192,221>>,
     <<88,108,222,207>>, <<28,32,200,174>>, <<91,190,247,221>>, <<27,88,141,64>>, <<204,210,1,127>>, <<107,180,227,187>>,
     <<221,162,106,126>>, <<58,89,255,69>>, <<62,53,10,68>>, <<188,180,205,213>>, <<114,234,206,168>>, <<250,100,132,187>>,
     <<141,102,18,174>>, <<191,60,111,71>>, <<210,155,228,99>>, <<84,47,93,158>>, <<174,194,119,27>>, <<246,78,99,112>>,
     <<116,14,13,141>>, <<231,91,19,87>>, <<248,114,22,113>>, <<175,83,125,93>>, <<64,64,203,8>>, <<78,180,226,204>>,
     <<52,210,70,106>>, <<1,21,175,132>>, <<225,176,4,40>>, <<149,152,58,29>>, <<6,184,159,180>>, <<206,110,160,72>>,
     <<111,63,59,130>>, <<53,32,171,130>>, <<1,26,29,75>>, <<39,114,39,248>>, <<97,21,96,177>>, <<231,147,63,220>>,
     <<187,58,121,43>>, <<52,69,37,189>>, <<160,136,57,225>>, <<81,206,121,75>>, <<47,50,201,183>>, <<160,31,186,201>>,
     <<224,28,200,126>>, <<188,199,209,246>>, <<207,1,17,195>>, <<161,232,170,199>>, <<26,144,135,73>>, <<212,79,189,154>>,
     <<208,218,222,203>>, <<213,10,218,56>>, <<3,57,195,42>>, <<198,145,54,103>>, <<141,249,49,124>>, <<224,177,43,79>>,
     <<247,158,89,183>>, <<67,245,187,58>>, <<242,213,25,255>>, <<39,217,69,156>>, <<191,151,34,44>>, <<21,230,252,42>>,
     <<15,145,252,113>>, <<155,148,21,37>>, <<250,229,147,97>>, <<206,182,156,235>>, <<194,168,100,89>>, <<18,186,168,209>>,
     <<182,193,7,94>>, <<227,5,106,12>>, <<16,210,80,101>>, <<203,3,164,66>>, <<224,236,110,14>>, <<22,152,219,59>>,
     <<76,152,160,190>>, <<50,120,233,100>>, <<159,31,149,50>>, <<224,211,146,223>>, <<211,160,52,43>>, <<137,113,242,30>>,
     <<27,10,116,65>>, <<75,163,52,140>>, <<197,190,113,32>>, <<195,118,50,216>>, <<223,53,159,141>>, <<155,153,47,46>>,
     <<230,11,111,71>>, <<15,227,241,29>>, <<229,76,218,84>>, <<30,218,216,145>>, <<206,98,121,207>>, <<205,62,126,111>>,
     <<22,24,177,102>>, <<253,44,29,5>>, <<132,143,210,197>>, <<246,251,34,153>>, <<245,35,243,87>>, <<166,50,118,35>>,
     <<147,168,53,49>>, <<86,204,205,2>>, <<172,240,129,98>>, <<90,117,235,181>>, <<110,22,54,151>>, <<136,210,115,204>>,
     <<222,150,98,146>>, <<129,185,73,208>>, <<76,80,144,27>>, <<113,198,86,20>>, <<230,198,199,189>>, <<50,122,20,10>>,
     <<69,225,208,6>>, <<195,242,123,154>>, <<201,170,83,253>>, <<98,168,15,0>>, <<187,37,191,226>>, <<53,189,210,246>>,
     <<113,18,105,5>>, <<178,4,2,34>>, <<182,203,207,124>>, <<205,118,156,43>>, <<83,17,62,192>>, <<22,64,227,211>>,
     <<56,171,189,96>>, <<37,71,173,240>>, <<186,56,32,156>>, <<247,70,206,118>>, <<119,175,161,197>>, <<32,117,96,96>>,
     <<133,203,254,78>>, <<138,232,141,216>>, <<122,170,249,176>>, <<76,249,170,126>>, <<25,72,194,92>>, <<2,251,138,140>>,
     <<1,195,106,228>>, <<214,235,225,249>>, <<144,212,248,105>>, <<166,92,222,160>>, <<63,9,37,45>>, <<194,8,230,159>>,
     <<183,78,97,50>>, <<206,119,226,91>>, <<87,143,223,227>>, <<58,195,114,230>> >>
\* ---------------------------------------------------------------------------
\* json/crypt.rs : Blowfish in ECB mode, custom padding byte, lowercase hex.
\* Byte strings (Vec<u8>, and String through as_bytes) are sequences of 0..255.
\* A 32-bit word of the cipher is the tuple of its four big-endian bytes.
\* ---------------------------------------------------------------------------
PADDING_BYTE == 2

BLOCK_LEN == 8

\* The sequence with the same elements as the function f on 1..n.
AsSeq(f) == << >> \o f

Byte == 0..255

Word == Byte \X Byte \X Byte \X Byte

\* Exclusive or of two 4-bit values, tabulated: XorNibble[a + 1][b + 1].
XorNibble ==
  LET bit(a, b, k) == ((a \div k) + (b \div k)) % 2
  IN  AsSeq([a \in 1..16 |-> AsSeq([b \in 1..16 |->
        bit(a - 1, b - 1, 1) + 2 * bit(a - 1, b - 1, 2)
          + 4 * bit(a - 1, b - 1, 4) + 8 * bit(a - 1, b - 1, 8)])])

\* Exclusive or of two bytes from the table t of 4-bit exclusive ors.
NibblePair(t, a, b) ==
  16 * t[(a \div 16) + 1][(b \div 16) + 1] + t[(a % 16) + 1][(b % 16) + 1]

XorByte(a, b) == NibblePair(XorNibble, a, b)

XorWord[x \in Word, y \in Word] == AsSeq([i \in 1..4 |-> XorByte(x[i], y[i])])

\* Wrapping 32-bit addition: c[i] is the carry out of byte i.
AddWord[x \in Word, y \in Word] ==
  LET c[i \in 1..4] == (x[i] + y[i] + (IF i = 4 THEN 0 ELSE c[i + 1])) \div 256
  IN  AsSeq([i \in 1..4 |-> (x[i] + y[i] + (IF i = 4 THEN 0 ELSE c[i + 1])) % 256])

\* The Blowfish round function.
BlowfishF(S, x) ==
  AddWord[XorWord[AddWord[S[1][x[1] + 1], S[2][x[2] + 1]], S[3][x[3] + 1]], S[4][x[4] + 1]]

\* The halves after a round whose left half became l1: swapped.
Feistel(S, r, l1) == << XorWord[r, BlowfishF(S, l1)], l1 >>

\* One Feistel round with subkey P[i], halves swapped afterwards.
Round(P, S, lr, i) == Feistel(S, lr[2], XorWord[lr[1], P[i]])

\* The n rounds starting with round lo, in order; the subkey of round j is
\* P[j] when encrypting and P[19 - j] when decrypting.  The rounds are done a
\* half at a time, the second half starting from the result of the first.
RECURSIVE Rounds(_, _, _, _, _, _)
Rounds(P, S, lr, lo, n, enc) ==
  IF n = 1 THEN Round(P, S, lr, IF enc THEN lo ELSE 19 - lo)
  ELSE LET h == Rounds(P, S, lr, lo, n \div 2, enc)
       IN  << h, Rounds(P, S, h, lo + (n \div 2), n - (n \div 2), enc) >>[2]

\* The output whitening: the halves e are swapped back and xored with a and b.
Whiten(e, a, b) == AsSeq([i \in 1..2 |-> XorWord[e[3 - i], IF i = 1 THEN a ELSE b]])

\* Encrypts (enc) or decrypts one block given as the pair of words lr.
CryptWords(P, S, lr, enc) ==
  Whiten(Rounds(P, S, lr, 1, 16, enc), IF enc THEN P[18] ELSE P[1], IF enc THEN P[17] ELSE P[2])

EncryptWords(P, S, lr) == CryptWords(P, S, lr, TRUE)

DecryptWords(P, S, lr) == CryptWords(P, S, lr, FALSE)

\* The four key bytes that are xored into P[i], the key being used cyclically.
KeyWord(key, i) == AsSeq([j \in 1..4 |-> key[((4 * (i - 1) + j - 1) % Len(key)) + 1]])

KeyedP(key) == AsSeq([i \in 1..18 |-> XorWord[PiP[i], KeyWord(key, i)]])

\* The tables st with the encrypted block e put in place at step k: two
\* consecutive entries of P (steps 1..9), then of the four S-boxes (steps
\* 10..521, 128 steps a box).
Replace(st, k, e) ==
  IF k <= 9
  THEN [P |-> [st.P EXCEPT ![2 * k - 1] = e[1], ![2 * k] = e[2]], S |-> st.S, lr |-> e]
  ELSE [P |-> st.P,
        S |-> [st.S EXCEPT ![((k - 10) \div 128) + 1] =
                 [@ EXCEPT ![2 * ((k - 10) % 128) + 1] = e[1], ![2 * ((k - 10) % 128) + 2] = e[2]]],
        lr |-> e]

\* One step of the key expansion: the running block is encrypted with the
\* current tables and the result replaces two consecutive table entries.
ScheduleStep(st, k) == Replace(st, k, CryptWords(st.P, st.S, st.lr, TRUE))

\* The n steps starting with step lo, in order, done a half at a time, the
\* second half starting from the result of the first.
RECURSIVE ScheduleSteps(_, _, _)
ScheduleSteps(st, lo, n) ==
  IF n = 1 THEN ScheduleStep(st, lo)
  ELSE LET h == ScheduleSteps(st, lo, n \div 2)
       IN  << h, ScheduleSteps(h, lo + (n \div 2), n - (n \div 2)) >>[2]

\* Blowfish::new_from_slice: keys of fewer than 4 or more than 56 bytes are
\* rejected, which the callers turn into a panic.
ValidKey(key) == Len(key) >= 4 /\ Len(key) <= 56

\* The tables before the key expansion: the digits of pi, P xored with the key.
InitialTables(key) ==
  [P |-> KeyedP(key), S |-> << PiS0, PiS1, PiS2, PiS3 >>, lr |-> << << 0, 0, 0, 0 >>, << 0, 0, 0, 0 >> >>]

\* The subkeys and S-boxes of an expanded state.
Subkeys(st) == [P |-> st.P, S |-> st.S]

\* Blowfish::new_from_slice: the key schedule.
KeySchedule(key) == Subkeys(ScheduleSteps(InitialTables(key), 1, 521))

\* round_len that adds a block to a length that is a multiple already.
round_len_adding_a_block(len, block_size) == len + block_size - (len % block_size)

\* round_len
round_len(len, block_size) ==
  LET remainder == len % block_size
  IN  IF remainder = 0 THEN len ELSE len + block_size - remainder

\* Vec::resize(new_len, value) for new_len >= Len(v)
Resize(v, new_len, value) ==
  v \o [i \in 1..(new_len - Len(v)) |-> value]

\* The two words of block i of bytes.
Halves(bytes, i) == << SubSeq(bytes, 8 * i - 7, 8 * i - 4), SubSeq(bytes, 8 * i - 3, 8 * i) >>

\* The blocks out, each a pair of words, laid end to end.
Flat(out) ==
  AsSeq([j \in 1..(BLOCK_LEN * Len(out)) |->
    out[((j - 1) \div BLOCK_LEN) + 1][(((j - 1) % BLOCK_LEN) \div 4) + 1][((j - 1) % 4) + 1]])

\* The cipher applied to each 8-byte block on its own (ECB, NoPadding); the
\* length of bytes is a multiple of BLOCK_LEN.
EcbBlocks(ks, bytes, enc) ==
  Flat(AsSeq([i \in 1..(Len(bytes) \div BLOCK_LEN) |-> CryptWords(ks.P, ks.S, Halves(bytes, i), enc)]))

\* format!("{b:02x}") : the ASCII codes of the two lowercase hex digits of b.
HexDigit(n) == IF n < 10 THEN 48 + n ELSE 87 + n

\* format!("{b:x}") : a byte below 16 gives one digit.
RECURSIVE HexString_unpadded(_)
HexString_unpadded(bytes) ==
  IF bytes = << >> THEN << >>
  ELSE (IF bytes[1] < 16 THEN << HexDigit(bytes[1]) >>
        ELSE << HexDigit(bytes[1] \div 16), HexDigit(bytes[1] % 16) >>)
         \o HexString_unpadded(Tail(bytes))

HexString(bytes) ==
  AsSeq([j \in 1..(2 * Len(bytes)) |->
           IF j % 2 = 1 THEN HexDigit(bytes[(j + 1) \div 2] \div 16)
                        ELSE HexDigit(bytes[j \div 2] % 16)])

\* crypt::encrypt with an already scheduled key
encrypt_with(ks, input) ==
  LET padded_len == round_len(Len(input), BLOCK_LEN)
      inputbytes == Resize(input, padded_len, PADDING_BYTE)
  IN  HexString(EcbBlocks(ks, inputbytes, TRUE))

\* char::to_digit(16) of one byte, -1 when it is no hexadecimal digit.
HexVal(c) ==
  IF c >= 48 /\ c <= 57 THEN c - 48
  ELSE IF c >= 97 /\ c <= 102 THEN c - 87
  ELSE IF c >= 65 /\ c <= 70 THEN c - 55
  ELSE -1

\* u8::from_str_radix(fragment, 16) for a fragment of one or two bytes, -1 for
\* Err: a leading '+' (43) is accepted when a digit follows it.
FromStrRadix16(fragment) ==
  LET digits == IF Len(fragment) > 1 /\ fragment[1] = 43 THEN Tail(fragment) ELSE fragment
  IN  IF \E i \in 1..Len(digits) : HexVal(digits[i]) < 0 THEN -1
      ELSE IF Len(digits) = 1 THEN HexVal(digits[1])
      ELSE 16 * HexVal(digits[1]) + HexVal(digits[2])

\* The loop of crypt::decrypt over hex_input.as_bytes().chunks(2).
HexBytes(hex_input) ==
  LET n == (Len(hex_input) + 1) \div 2
      chunk(i) == SubSeq(hex_input, 2 * i - 1, IF 2 * i <= Len(hex_input) THEN 2 * i ELSE 2 * i - 1)
      byte(i) == LET b == FromStrRadix16(chunk(i)) IN IF b < 0 THEN 0 ELSE b
  IN  AsSeq([i \in 1..n |-> byte(i)])

\* A truncation that takes the trailing PADDING_BYTEs off and no more.
TruncateAtPadding_trailing(cipherbytes) ==
  LET keep == {i \in 1..Len(cipherbytes) : cipherbytes[i] # PADDING_BYTE}
  IN  IF keep = {} THEN << >>
      ELSE SubSeq(cipherbytes, 1, CHOOSE i \in keep : \A j \in keep : j <= i)

\* A truncation that keeps the first PADDING_BYTE.
TruncateAtPadding_after_padding(cipherbytes) ==
  LET at == {i \in 1..Len(cipherbytes) : cipherbytes[i] = PADDING_BYTE}
  IN  IF at = {} THEN cipherbytes
      ELSE SubSeq(cipherbytes, 1, CHOOSE i \in at : \A j \in at : i <= j)

\* The truncation of crypt::decrypt at the first PADDING_BYTE.
TruncateAtPadding(cipherbytes) ==
  LET at == {i \in 1..Len(cipherbytes) : cipherbytes[i] = PADDING_BYTE}
  IN  IF at = {} THEN cipherbytes
      ELSE SubSeq(cipherbytes, 1, (CHOOSE i \in at : \A j \in at : i <= j) - 1)

\* A decrypt that leaves out the bytes after the last whole block.
decrypt_with_whole_blocks_only(ks, hex_input) ==
  LET inputbytes == HexBytes(hex_input)
      whole      == SubSeq(inputbytes, 1, BLOCK_LEN * (Len(inputbytes) \div BLOCK_LEN))
  IN  [panic |-> FALSE, bytes |-> TruncateAtPadding(EcbBlocks(ks, whole, FALSE))]

\* crypt::decrypt with an already scheduled key: [panic |-> TRUE] when
\* decrypt_padded_mut rejects a length that is no multiple of BLOCK_LEN.
decrypt_with(ks, hex_input) ==
  LET inputbytes == HexBytes(hex_input)
  IN  IF Len(inputbytes) % BLOCK_LEN # 0 THEN [panic |-> TRUE, bytes |-> << >>]
      ELSE [panic |-> FALSE, bytes |-> TruncateAtPadding(EcbBlocks(ks, inputbytes, FALSE))]

\* ---------------------------------------------------------------------------
\* Values.  Option<T> is a sequence of at most one element; a Rust String is a
\* TLA+ string, turned into its bytes where the code reads them.
\* ---------------------------------------------------------------------------
None == << >>

Some(x) == << x >>

IsSome(o) == o # << >>

\* Option::or_else
OrElse(o, p) == IF IsSome(o) THEN o ELSE p

\* str::as_bytes: the UTF-8 bytes of the string literals the model uses.
Utf8(s) ==
  CASE s = "partnerAuthToken" -> << 112, 97, 114, 116, 110, 101, 114, 65, 117, 116, 104, 84, 111, 107, 101, 110 >>
    [] s = "userAuthToken" -> << 117, 115, 101, 114, 65, 117, 116, 104, 84, 111, 107, 101, 110 >>
    [] s = "syncTime" -> << 115, 121, 110, 99, 84, 105, 109, 101 >>
    [] s = "username" -> << 117, 115, 101, 114, 110, 97, 109, 101 >>
    [] s = "password" -> << 112, 97, 115, 115, 119, 111, 114, 100 >>
    [] s = "deviceModel" -> << 100, 101, 118, 105, 99, 101, 77, 111, 100, 101, 108 >>
    [] s = "version" -> << 118, 101, 114, 115, 105, 111, 110 >>
    [] s = "loginType" -> << 108, 111, 103, 105, 110, 84, 121, 112, 101 >>
    [] s = "stationToken" -> << 115, 116, 97, 116, 105, 111, 110, 84, 111, 107, 101, 110 >>
    [] s = "android" -> << 97, 110, 100, 114, 111, 105, 100 >>
    [] s = "AC7IBG09A3DTSYM4R41UJWL07VLN8JI7" -> << 65, 67, 55, 73, 66, 71, 48, 57, 65, 51, 68, 84, 83, 89, 77, 52, 82, 52, 49, 85, 74, 87, 76, 48, 55, 86, 76, 78, 56, 74, 73, 55 >>
    [] s = "android-generic" -> << 97, 110, 100, 114, 111, 105, 100, 45, 103, 101, 110, 101, 114, 105, 99 >>
    [] s = "5" -> << 53 >>
    [] s = "user" -> << 117, 115, 101, 114 >>
    [] s = "u" -> << 117 >>
    [] s = "p" -> << 112 >>
    [] s = "S1" -> << 83, 49 >>
    [] s = "CALLER" -> << 67, 65, 76, 76, 69, 82 >>
    [] s = "PT1" -> << 80, 84, 49 >>
    [] s = "PT2" -> << 80, 84, 50 >>
    [] s = "UT1" -> << 85, 84, 49 >>
    [] s = "auth_token" -> << 97, 117, 116, 104, 95, 116, 111, 107, 101, 110 >>
    [] s = "partner_id" -> << 112, 97, 114, 116, 110, 101, 114, 95, 105, 100 >>
    [] s = "user_id" -> << 117, 115, 101, 114, 95, 105, 100 >>
    [] s = "method" -> << 109, 101, 116, 104, 111, 100 >>
    [] s = "6#26FRL$ZWD" -> << 54, 35, 50, 54, 70, 82, 76, 36, 90, 87, 68 >>
    [] s = "R=U!LH$O2B#" -> << 82, 61, 85, 33, 76, 72, 36, 79, 50, 66, 35 >>
    [] s = "6923e263a8c3ac690646146b50065f43" -> << 54, 57, 50, 51, 101, 50, 54, 51, 97, 56, 99, 51, 97, 99, 54, 57, 48, 54, 52, 54, 49, 52, 54, 98, 53, 48, 48, 54, 53, 102, 52, 51 >>
    [] s = "4a6b45612b018614c92c50dc73462bbd" -> << 52, 97, 54, 98, 52, 53, 54, 49, 50, 98, 48, 49, 56, 54, 49, 52, 99, 57, 50, 99, 53, 48, 100, 99, 55, 51, 52, 54, 50, 98, 98, 100 >>
    [] s = "6923e263" -> << 54, 57, 50, 51, 101, 50, 54, 51 >>
    [] s = "ebd71f22a26681a0" -> << 101, 98, 100, 55, 49, 102, 50, 50, 97, 50, 54, 54, 56, 49, 97, 48 >>
    [] s = "9540d7c692fd5b91" -> << 57, 53, 52, 48, 100, 55, 99, 54, 57, 50, 102, 100, 53, 98, 57, 49 >>
    [] s = "bb0943ff7bd2748f" -> << 98, 98, 48, 57, 52, 51, 102, 102, 55, 98, 100, 50, 55, 52, 56, 102 >>
    [] s = "a92f6c2e9da345bc" -> << 97, 57, 50, 102, 54, 99, 50, 101, 57, 100, 97, 51, 52, 53, 98, 99 >>
    [] s = "0ab2a18806cf1f9c" -> << 48, 97, 98, 50, 97, 49, 56, 56, 48, 54, 99, 102, 49, 102, 57, 99 >>
    [] s = "9dc3450f0342aef3" -> << 57, 100, 99, 51, 52, 53, 48, 102, 48, 51, 52, 50, 97, 101, 102, 51 >>
    [] s = "935f757770716b77" -> << 57, 51, 53, 102, 55, 53, 55, 55, 55, 48, 55, 49, 54, 98, 55, 55 >>
    [] s = "fc3e4a62c48e4f23" -> << 102, 99, 51, 101, 52, 97, 54, 50, 99, 52, 56, 101, 52, 102, 50, 51 >>
    [] s = "c99a866779ed6973" -> << 99, 57, 57, 97, 56, 54, 54, 55, 55, 57, 101, 100, 54, 57, 55, 51 >>
    [] s = "ccbd03d2988a73e9cf70bb54d744430f" -> << 99, 99, 98, 100, 48, 51, 100, 50, 57, 56, 56, 97, 55, 51, 101, 57, 99, 102, 55, 48, 98, 98, 53, 52, 100, 55, 52, 52, 52, 51, 48, 102 >>
    [] s = "ecb9e7520c929766634631e2453b0b06634631e2453b0b060b66ceb11dddbf67" -> << 101, 99, 98, 57, 101, 55, 53, 50, 48, 99, 57, 50, 57, 55, 54, 54, 54, 51, 52, 54, 51, 49, 101, 50, 52, 53, 51, 98, 48, 98, 48, 54, 54, 51, 52, 54, 51, 49, 101, 50, 52, 53, 51, 98, 48, 98, 48, 54, 48, 98, 54, 54, 99, 101, 98, 49, 49, 100, 100, 100, 98, 102, 54, 55 >>
    [] s = "b97b449e6eb5f69b" -> << 98, 57, 55, 98, 52, 52, 57, 101, 54, 101, 98, 53, 102, 54, 57, 98 >>
    [] s = "91bfc397a0965841" -> << 57, 49, 98, 102, 99, 51, 57, 55, 97, 48, 57, 54, 53, 56, 52, 49 >>
    [] s = "a62b15a0d86139540646146b50065f43" -> << 97, 54, 50, 98, 49, 53, 97, 48, 100, 56, 54, 49, 51, 57, 53, 52, 48, 54, 52, 54, 49, 52, 54, 98, 53, 48, 48, 54, 53, 102, 52, 51 >>
    [] s = "f08faadf89ea8a6f0646146b50065f43" -> << 102, 48, 56, 102, 97, 97, 100, 102, 56, 57, 101, 97, 56, 97, 54, 102, 48, 54, 52, 54, 49, 52, 54, 98, 53, 48, 48, 54, 53, 102, 52, 51 >>
    [] s = "d1b4c9a2a43292f50646146b50065f43" -> << 100, 49, 98, 52, 99, 57, 97, 50, 97, 52, 51, 50, 57, 50, 102, 53, 48, 54, 52, 54, 49, 52, 54, 98, 53, 48, 48, 54, 53, 102, 52, 51 >>
    [] s = "ce6a89a68f337d3830cf8aaae37280c8" -> << 99, 101, 54, 97, 56, 57, 97, 54, 56, 102, 51, 51, 55, 100, 51, 56, 51, 48, 99, 102, 56, 97, 97, 97, 101, 51, 55, 50, 56, 48, 99, 56 >>
    [] s = "28ab5de309f32393634631e2453b0b06634631e2453b0b06" -> << 50, 56, 97, 98, 53, 100, 101, 51, 48, 57, 102, 51, 50, 51, 57, 51, 54, 51, 52, 54, 51, 49, 101, 50, 52, 53, 51, 98, 48, 98, 48, 54, 54, 51, 52, 54, 51, 49, 101, 50, 52, 53, 51, 98, 48, 98, 48, 54 >>
    [] s = "bac048f1c8848a3622f5020de6ed0c73ec65d87d03ed0bec" -> << 98, 97, 99, 48, 52, 56, 102, 49, 99, 56, 56, 52, 56, 97, 51, 54, 50, 50, 102, 53, 48, 50, 48, 100, 101, 54, 101, 100, 48, 99, 55, 51, 101, 99, 54, 53, 100, 56, 55, 100, 48, 51, 101, 100, 48, 98, 101, 99 >>
    [] s = "5db1b660676011b70bb7cc8c111f46912e077c4d6d9575d1" -> << 53, 100, 98, 49, 98, 54, 54, 48, 54, 55, 54, 48, 49, 49, 98, 55, 48, 98, 98, 55, 99, 99, 56, 99, 49, 49, 49, 102, 52, 54, 57, 49, 50, 101, 48, 55, 55, 99, 52, 100, 54, 100, 57, 53, 55, 53, 100, 49 >>
    [] s = "ecb9e7520c929766634631e2453b0b06634631e2453b0b060b66ceb1"
         -> << 101, 99, 98, 57, 101, 55, 53, 50, 48, 99, 57, 50, 57, 55, 54, 54, 54, 51, 52, 54, 51, 49, 101, 50, 52, 53, 51, 98, 48, 98, 48, 54, 54, 51, 52, 54, 51, 49, 101, 50, 52, 53, 51, 98, 48, 98, 48, 54, 48, 98, 54, 54, 99, 101, 98, 49 >>
    [] s = "ecb9e7520c929766634631e2453b0b06634631e2453b0b060b66ceb11"
         -> << 101, 99, 98, 57, 101, 55, 53, 50, 48, 99, 57, 50, 57, 55, 54, 54, 54, 51, 52, 54, 51, 49, 101, 50, 52, 53, 51, 98, 48, 98, 48, 54, 54, 51, 52, 54, 51, 49, 101, 50, 52, 53, 51, 98, 48, 98, 48, 54, 48, 98, 54, 54, 99, 101, 98, 49, 49 >>
    [] s = "88702d81756cb967" -> << 56, 56, 55, 48, 50, 100, 56, 49, 55, 53, 54, 99, 98, 57, 54, 55 >>
    [] s = "" -> <<  >>
    [] s = "6923e263a8c3ac6" -> << 54, 57, 50, 51, 101, 50, 54, 51, 97, 56, 99, 51, 97, 99, 54 >>
    [] s = "6923e263a8c3ac69064614" -> << 54, 57, 50, 51, 101, 50, 54, 51, 97, 56, 99, 51, 97, 99, 54, 57, 48, 54, 52, 54, 49, 52 >>
    [] s = "6923e263a8c3ac690646146b50065f4300" -> << 54, 57, 50, 51, 101, 50, 54, 51, 97, 56, 99, 51, 97, 99, 54, 57, 48, 54, 52, 54, 49, 52, 54, 98, 53, 48, 48, 54, 53, 102, 52, 51, 48, 48 >>

\* Ord for str and for byte slices: lexicographic on the bytes.
BytesLess(a, b) ==
  \E i \in 1..(Len(a) + 1) :
     /\ \A j \in 1..(i - 1) : j <= Len(b) /\ a[j] = b[j]
     /\ \/ i = Len(a) + 1 /\ Len(b) >= i
        \/ i <= Len(a) /\ i <= Len(b) /\ a[i] < b[i]

StrLess(a, b) == BytesLess(Utf8(a), Utf8(b))

\* The keys of a BTreeMap in iteration order.
RECURSIVE SortedKeys(_)
SortedKeys(keys) ==
  IF keys = {} THEN << >>
  ELSE LET m == CHOOSE k \in keys : \A o \in keys \ {k} : StrLess(k, o)
       IN  << m >> \o SortedKeys(keys \ {m})

RECURSIVE Flatten(_)
Flatten(seqs) == IF seqs = << >> THEN << >> ELSE Head(seqs) \o Flatten(Tail(seqs))

\* A map (BTreeMap<String, _>, serde_json::Map) is a function on its key set.
EmptyMap == [k \in {} |-> 0]

\* BTreeMap::insert / Map::insert: the value of an existing key is replaced.
MapInsert(m, k, v) == [x \in (DOMAIN m) \cup {k} |-> IF x = k THEN v ELSE m[x]]

\* Map::get
MapGet(m, k) == IF k \in DOMAIN m THEN Some(m[k]) ELSE None

\* serde_json::Value: strings and unsigned numbers are the values in use.
JString(s) == [t |-> "String", s |-> s, n |-> 0]

JNumber(n) == [t |-> "Number", s |-> "", n |-> n]

\* serde_json::Value::Null
JNull == [t |-> "Null", s |-> "", n |-> 0]

\* Value::as_object_mut().is_some(): an object is a map from its keys to
\* their values; the values that are no objects carry the tag t, which is no
\* key of an object of this model.
IsObject(value) == "t" \notin DOMAIN value

\* The decimal digits of n >= 0, as ASCII codes.
RECURSIVE Decimal(_)
Decimal(n) == IF n < 10 THEN << 48 + n >> ELSE Decimal(n \div 10) \o << 48 + (n % 10) >>

\* serde_json's string escaping of one byte.
EscapeByte(c) ==
  IF c = 34 THEN << 92, 34 >>
  ELSE IF c = 92 THEN << 92, 92 >>
  ELSE IF c = 8 THEN << 92, 98 >>
  ELSE IF c = 9 THEN << 92, 116 >>
  ELSE IF c = 10 THEN << 92, 110 >>
  ELSE IF c = 12 THEN << 92, 102 >>
  ELSE IF c = 13 THEN << 92, 114 >>
  ELSE IF c < 32 THEN << 92, 117, 48, 48, HexDigit(c \div 16), HexDigit(c % 16) >>
  ELSE << c >>

\* A JSON string literal.
Quoted(s) ==
  LET b == Utf8(s)
  IN  << 34 >> \o Flatten(AsSeq([i \in 1..Len(b) |-> EscapeByte(b[i])])) \o << 34 >>

ValueToString(v) == IF v.t = "String" THEN Quoted(v.s) ELSE Decimal(v.n)

\* Value::to_string of an object: compact, the keys in the map's (sorted) order.
to_string(json) ==
  LET keys == SortedKeys(DOMAIN json)
      entry(i) == (IF i > 1 THEN << 44 >> ELSE << >>)
                    \o Quoted(keys[i]) \o << 58 >> \o ValueToString(json[keys[i]])
  IN  << 123 >> \o Flatten(AsSeq([i \in 1..Len(keys) |-> entry(i)])) \o << 125 >>

\* ---------------------------------------------------------------------------
\* The partner profile and the codec under its keys.
\* ---------------------------------------------------------------------------
\* Partner::new_android
new_android ==
  [username         |-> "android",
   password         |-> "AC7IBG09A3DTSYM4R41UJWL07VLN8JI7",
   device_model     |-> "android-generic",
   version          |-> "5",
   decrypt_password |-> "R=U!LH$O2B#",
   encrypt_password |-> "6#26FRL$ZWD",
   endpoint_host    |-> "tuner.pandora.com"]

\* The keys of the profile.
ProfileKeys == {"6#26FRL$ZWD", "R=U!LH$O2B#"}

\* The shortest and the longest key the cipher takes in this model, of 4 and
\* of 56 bytes.
BoundaryKeys == { "user", "ecb9e7520c929766634631e2453b0b06634631e2453b0b060b66ceb1" }

\* The key schedules of those keys, computed once.
ProfileSchedules == [key \in ProfileKeys \cup BoundaryKeys |-> KeySchedule(Utf8(key))]

\* Blowfish::new_from_slice(key.as_bytes()): Err(InvalidLength) for a key of
\* fewer than 4 or more than 56 bytes, else the cipher with the key's schedule.
new_from_slice(key) ==
  IF ~ValidKey(Utf8(key)) THEN [tag |-> "Err", v |-> "InvalidLength"]
  ELSE [tag |-> "Ok",
        v   |-> IF key \in DOMAIN ProfileSchedules THEN ProfileSchedules[key]
                ELSE KeySchedule(Utf8(key))]

\* crypt::encrypt: the key is a string, the input and the output are bytes.
\* The expect on new_from_slice panics ("Invalid key: unsupported key length")
\* for a key the cipher rejects.
encrypt(key, input) ==
  LET expect(encryptor) ==
        IF encryptor.tag = "Err" THEN [panic |-> TRUE, hex |-> << >>]
        ELSE [panic |-> FALSE, hex |-> encrypt_with(encryptor.v, input)]
  IN  expect(new_from_slice(key))

\* The ciphertexts that servers send in this model, as bytes.
SyncTimeCiphertexts ==
  {Utf8(s) : s \in {"6923e263a8c3ac690646146b50065f43", "4a6b45612b018614c92c50dc73462bbd"}}

\* Their decryptions under the key that the profile decrypts with, computed once.
ProfileDecrypted ==
  [c \in SyncTimeCiphertexts |-> decrypt_with(ProfileSchedules["R=U!LH$O2B#"], c)]

\* crypt::decrypt: the key is a string, the hex input and the output are bytes.
\* The expect on new_from_slice panics for a key the cipher rejects, the
\* expect on decrypt_padded_mut for bytes that are not whole blocks.
decrypt(key, hex_input) ==
  LET expect(decryptor) ==
        IF decryptor.tag = "Err" THEN [panic |-> TRUE, bytes |-> << >>]
        ELSE IF key = "R=U!LH$O2B#" /\ hex_input \in SyncTimeCiphertexts
        THEN ProfileDecrypted[hex_input]
        ELSE decrypt_with(decryptor.v, hex_input)
  IN  expect(new_from_slice(key))

\* str::from_utf8(bytes).is_ok(): well-formed UTF-8 (no overlong forms, no
\* surrogates, nothing above U+10FFFF).
RECURSIVE Utf8Valid(_)
Utf8Valid(b) ==
  LET n == Len(b)
      cont(i) == i <= n /\ b[i] >= 128 /\ b[i] <= 191
      rng(i, lo, hi) == i <= n /\ b[i] >= lo /\ b[i] <= hi
      rest(k) == Utf8Valid(SubSeq(b, k + 1, n))
  IN  IF n = 0 THEN TRUE
      ELSE IF b[1] < 128 THEN rest(1)
      ELSE IF b[1] >= 194 /\ b[1] <= 223 THEN cont(2) /\ rest(2)
      ELSE IF b[1] = 224 THEN rng(2, 160, 191) /\ cont(3) /\ rest(3)
      ELSE IF b[1] = 237 THEN rng(2, 128, 159) /\ cont(3) /\ rest(3)
      ELSE IF b[1] >= 225 /\ b[1] <= 239 THEN cont(2) /\ cont(3) /\ rest(3)
      ELSE IF b[1] = 240 THEN rng(2, 144, 191) /\ cont(3) /\ cont(4) /\ rest(4)
      ELSE IF b[1] >= 241 /\ b[1] <= 243 THEN cont(2) /\ cont(3) /\ cont(4) /\ rest(4)
      ELSE IF b[1] = 244 THEN rng(2, 128, 143) /\ cont(3) /\ cont(4) /\ rest(4)
      ELSE FALSE

\* The value of the decimal digits d, most significant first.
RECURSIVE DigitsValue(_)
DigitsValue(d) ==
  IF d = << >> THEN 0 ELSE 10 * DigitsValue(SubSeq(d, 1, Len(d) - 1)) + (d[Len(d)] - 48)

\* str::parse::<u64>().unwrap_or(0) on the bytes of the string: an optional
\* leading '+', then one or more decimal digits; 0 for a number above
\* u64::MAX = 18446744073709551615, that is, for more than twenty significant
\* digits, or for twenty that come after the digits of u64::MAX in the order
\* of the digit strings.  (The numbers are compared as digit strings; the
\* values that parse are below 2^31 in this model.)
ParseU64OrZero(b) ==
  LET digits  == IF Len(b) > 1 /\ b[1] = 43 THEN Tail(b) ELSE b
      nonzero == {i \in 1..Len(digits) : digits[i] # 48}
      leading == IF nonzero = {} THEN Len(digits)
                 ELSE (CHOOSE i \in nonzero : \A j \in nonzero : i <= j) - 1
      max     == << 49, 56, 52, 52, 54, 55, 52, 52, 48, 55,
                    51, 55, 48, 57, 53, 53, 49, 54, 49, 53 >>
      above(d) == \E i \in 1..20 : d[i] > max[i] /\ \A j \in 1..(i - 1) : d[j] = max[j]
  IN  IF digits = << >> \/ \E i \in 1..Len(digits) : digits[i] < 48 \/ digits[i] > 57
      THEN 0
      ELSE IF Len(digits) - leading > 20 THEN 0
      ELSE IF Len(digits) - leading = 20 /\ above(SubSeq(digits, leading + 1, Len(digits)))
      THEN 0
      ELSE DigitsValue(SubSeq(digits, leading + 1, Len(digits)))
\* ---------------------------------------------------------------------------
\* json/errors.rs, errors.rs and the response envelope of json/mod.rs.
\* ---------------------------------------------------------------------------
\* std::result::Result
Ok(v) == [tag |-> "Ok", v |-> v]

Err(e) == [tag |-> "Err", v |-> e]

\* A JsonErrorKind: its variant and, for UnknownErrorCode, the code it carries.
Kind(name) == [name |-> name, code |-> 0]

UnknownErrorCode(x) == [name |-> "UnknownErrorCode", code |-> x]

\* impl From<u32> for JsonErrorKind
JsonErrorKind_from(code) ==
  CASE code = 0 -> Kind("InternalError")
    [] code = 1 -> Kind("MaintenanceMode")
    [] code = 2 -> Kind("UrlParamMissingMethod")
    [] code = 3 -> Kind("UrlParamMissingAuthToken")
    [] code = 4 -> Kind("UrlParamMissingPartnerId")
    [] code = 5 -> Kind("UrlParamMissingUserId")
    [] code = 6 -> Kind("SecureProtocolRequired")
    [] code = 7 -> Kind("CertificateRequired")
    [] code = 8 -> Kind("ParameterTypeMismatch")
    [] code = 9 -> Kind("ParameterMissing")
    [] code = 10 -> Kind("ParameterValueInvalid")
    [] code = 11 -> Kind("ApiVersionNotSupported")
    [] code = 12 -> Kind("LicensingRestrictions")
    [] code = 13 -> Kind("InsufficientConnectivity")
    [] code = 14 -> Kind("UnknownMethodName")
    [] code = 15 -> Kind("WrongProtocol")
    [] code = 1000 -> Kind("ReadOnlyMode")
    [] code = 1001 -> Kind("InvalidAuthToken")
    [] code = 1002 -> Kind("InvalidPartnerLogin")
    [] code = 1003 -> Kind("ListenerNotAuthorized")
    [] code = 1004 -> Kind("UserNotAuthorized")
    [] code = 1005 -> Kind("MaxStationsReached")
    [] code = 1006 -> Kind("StationDoesNotExist")
    [] code = 1007 -> Kind("ComplimentaryPeriodAlreadyInUse")
    [] code = 1008 -> Kind("CallNotAllowed")
    [] code = 1009 -> Kind("DeviceNotFound")
    [] code = 1010 -> Kind("PartnerNotAuthorized")
    [] code = 1011 -> Kind("InvalidUsername")
    [] code = 1012 -> Kind("InvalidPassword")
    [] code = 1013 -> Kind("UsernameAlreadyExists")
    [] code = 1014 -> Kind("DeviceAlreadyAssociatedToAccount")
    [] code = 1015 -> Kind("UpgradeDeviceModelInvalid")
    [] code = 1018 -> Kind("ExplicitPinIncorrect")
    [] code = 1020 -> Kind("ExplicitPinMalformed")
    [] code = 1023 -> Kind("DeviceModelInvalid")
    [] code = 1024 -> Kind("ZipCodeInvalid")
    [] code = 1025 -> Kind("BirthYearInvalid")
    [] code = 1026 -> Kind("BirthYearTooYoung")
    [] code = 1027 -> Kind("InvalidCountryCode")
    [] code = 1034 -> Kind("DeviceDisabled")
    [] code = 1035 -> Kind("DailyTrialLimitReached")
    [] code = 1036 -> Kind("InvalidSponsor")
    [] code = 1037 -> Kind("UserAlreadyUsedTrial")
    [] code = 1039 -> Kind("PlaylistExceeded")
    [] OTHER -> UnknownErrorCode(code)

\* A variant of JsonError::new that takes an absent code for code 0.
JsonError_new_absent_as_zero(code, message) ==
  LET kind == JsonErrorKind_from(IF IsSome(code) THEN code[1] ELSE 0)
  IN  [kind |-> kind, message |-> message]

\* JsonError::new
JsonError_new(code, message) ==
  LET kind == IF IsSome(code) THEN JsonErrorKind_from(code[1]) ELSE Kind("UnknownErrorMessage")
  IN  [kind |-> kind, message |-> message]

\* errors::Error: the variant and what it wraps (a JsonError for
\* PandoraJsonRequestError, a description of the foreign error otherwise).
Error_from_JsonError(err) == [variant |-> "PandoraJsonRequestError", source |-> err]

Error_from_serde(err) == [variant |-> "JsonSerializationError", source |-> err]

Error_from_reqwest(err) == [variant |-> "HttpIoError", source |-> err]

\* Result::map_err(Self::Error::from) for a Result<T, JsonError>
MapJsonErr(res) == IF res.tag = "Ok" THEN res ELSE Err(Error_from_JsonError(res.v))

\* PandoraResponse<T>: the decoded envelope.
PandoraResponse(stat, result, message, code) ==
  [stat |-> stat, result |-> result, message |-> message, code |-> code]

\* serde_json::from_value::<T>(json!({})) for the response types in use: only
\* a type without required fields decodes from the empty object.
from_empty_object(T) ==
  IF T = "DeleteStationResponse" THEN Ok([optional |-> EmptyMap])
  ELSE Err("missing field")

\* The decode failure of an Ok envelope without a payload.
InvalidJsonContent == "Invalid JSON content."

\* A variant of into that builds the error of a failed decode from the
\* envelope's code and message.
into_with_envelope_error(self, T) ==
  IF self.stat = "Ok" /\ IsSome(self.result) THEN Ok(self.result[1])
  ELSE IF self.stat = "Ok"
  THEN LET deser == from_empty_object(T)
       IN  IF deser.tag = "Ok" THEN deser
           ELSE Err(JsonError_new(self.code, self.message))
  ELSE Err(JsonError_new(self.code, self.message))

\* A variant of into that looks at the payload before the status.
into_payload_first(self, T) ==
  IF IsSome(self.result) THEN Ok(self.result[1])
  ELSE IF self.stat = "Ok"
  THEN LET deser == from_empty_object(T)
       IN  IF deser.tag = "Ok" THEN deser
           ELSE Err(JsonError_new(None, Some(InvalidJsonContent)))
  ELSE Err(JsonError_new(self.code, self.message))

\* impl Into<Result<T, JsonError>> for PandoraResponse<T>
into(self, T) ==
  IF self.stat = "Ok" /\ IsSome(self.result) THEN Ok(self.result[1])
  ELSE IF self.stat = "Ok"
  THEN LET deser == from_empty_object(T)
       IN  IF deser.tag = "Ok" THEN deser
           ELSE Err(JsonError_new(None, Some(InvalidJsonContent)))
  ELSE Err(JsonError_new(self.code, self.message))

\* ---------------------------------------------------------------------------
\* json/mod.rs : SessionTokens.  The clock (std::time::Instant) is the number
\* of whole seconds since the program started.
\* ---------------------------------------------------------------------------
\* A variant of SessionTokens::new that takes each key from the other password.
SessionTokens_new_keys_swapped(to_encryption_tokens) ==
  [encrypt_key     |-> to_encryption_tokens.decrypt_password,
   decrypt_key     |-> to_encryption_tokens.encrypt_password,
   partner_id      |-> None,
   partner_token   |-> None,
   sync_time       |-> None,
   local_time_base |-> None,
   user_id         |-> None,
   user_token      |-> None]

\* SessionTokens::new
SessionTokens_new(to_encryption_tokens) ==
  [encrypt_key     |-> to_encryption_tokens.encrypt_password,
   decrypt_key     |-> to_encryption_tokens.decrypt_password,
   partner_id      |-> None,
   partner_token   |-> None,
   sync_time       |-> None,
   local_time_base |-> None,
   user_id         |-> None,
   user_token      |-> None]

\* SessionTokens::set_sync_time at instant clock
set_sync_time(self, sync_time, clock) ==
  [self EXCEPT !.local_time_base = Some(clock), !.sync_time = Some(sync_time)]

\* A variant of clear_sync_time that keeps the captured instant.
clear_sync_time_keeping_instant(self) ==
  [self EXCEPT !.sync_time = None]

\* SessionTokens::clear_sync_time
clear_sync_time(self) ==
  [self EXCEPT !.local_time_base = None, !.sync_time = None]

\* A variant of get_sync_time that returns the stored base.
get_sync_time_stored(self, clock) ==
  IF IsSome(self.sync_time) /\ IsSome(self.local_time_base)
  THEN Some(self.sync_time[1])
  ELSE None

\* SessionTokens::get_sync_time at instant clock
get_sync_time(self, clock) ==
  IF IsSome(self.sync_time) /\ IsSome(self.local_time_base)
  THEN Some((clock - self.local_time_base[1]) + self.sync_time[1])
  ELSE None

\* A variant of clear_partner_tokens that leaves the sync time alone.
clear_partner_tokens_keeping_sync_time(self) ==
  [self EXCEPT !.partner_id = None, !.partner_token = None]

\* A variant of clear_partner_tokens that keeps the partner token.
clear_partner_tokens_keeping_token(self) ==
  clear_sync_time([self EXCEPT !.partner_id = None])

\* SessionTokens::clear_partner_tokens
clear_partner_tokens(self) ==
  clear_sync_time([self EXCEPT !.partner_id = None, !.partner_token = None])

\* A variant of clear_user_tokens that clears the sync time too.
clear_user_tokens_and_sync_time(self) ==
  clear_sync_time([self EXCEPT !.user_id = None, !.user_token = None])

\* A variant of clear_user_tokens that keeps the user id.
clear_user_tokens_keeping_id(self) ==
  [self EXCEPT !.user_token = None]

\* SessionTokens::clear_user_tokens
clear_user_tokens(self) ==
  [self EXCEPT !.user_id = None, !.user_token = None]

\* impl ToPartnerTokens for PartnerLoginResponse
ToPartnerTokens(response) ==
  [partner_id    |-> Some(response.partner_id),
   partner_token |-> Some(response.partner_auth_token),
   sync_time     |-> Some(response.sync_time)]

\* impl ToUserTokens for UserLoginResponse
ToUserTokens(response) ==
  [user_id |-> Some(response.user_id), user_token |-> Some(response.user_auth_token)]

\* A variant of SyncTimeOf that reads the number from the first byte on.
SyncTimeOf_keeping_salt(decrypted) ==
  IF Utf8Valid(decrypted) THEN ParseU64OrZero(decrypted) ELSE 0

\* The sync time that update_partner_tokens reads out of the decrypted bytes:
\* everything after the first four, as a decimal number, 0 when it is none.
SyncTimeOf(decrypted) ==
  LET sync_time_bytes == SubSeq(decrypted, 5, Len(decrypted))
  IN  IF Utf8Valid(sync_time_bytes) THEN ParseU64OrZero(sync_time_bytes) ELSE 0

\* A variant of update_partner_tokens that keeps the time a sync time at hand
\* has run to as the new base.
update_partner_tokens_keeping_projection(self, to_partner_tokens, clock) ==
  LET assigned == [self EXCEPT !.partner_id = to_partner_tokens.partner_id,
                               !.partner_token = to_partner_tokens.partner_token]
      decrypted == decrypt(self.decrypt_key, Utf8(to_partner_tokens.sync_time[1]))
      base(parsed) == IF IsSome(get_sync_time(self, clock)) THEN get_sync_time(self, clock)[1]
                      ELSE parsed
  IN  IF ~IsSome(to_partner_tokens.sync_time) THEN [panic |-> FALSE, tokens |-> assigned]
      ELSE IF decrypted.panic THEN [panic |-> TRUE, tokens |-> assigned]
      ELSE [panic |-> FALSE,
            tokens |-> set_sync_time(assigned, base(SyncTimeOf(decrypted.bytes)), clock)]

\* SessionTokens::update_partner_tokens at instant clock.  The decryption may
\* panic, after the partner id and token have been assigned.
update_partner_tokens(self, to_partner_tokens, clock) ==
  LET assigned == [self EXCEPT !.partner_id = to_partner_tokens.partner_id,
                               !.partner_token = to_partner_tokens.partner_token]
      decrypted == decrypt(self.decrypt_key, Utf8(to_partner_tokens.sync_time[1]))
  IN  IF ~IsSome(to_partner_tokens.sync_time) THEN [panic |-> FALSE, tokens |-> assigned]
      ELSE IF decrypted.panic THEN [panic |-> TRUE, tokens |-> assigned]
      ELSE [panic |-> FALSE, tokens |-> set_sync_time(assigned, SyncTimeOf(decrypted.bytes), clock)]

\* SessionTokens::update_user_tokens
update_user_tokens(self, to_user_tokens) ==
  [self EXCEPT !.user_id = to_user_tokens.user_id, !.user_token = to_user_tokens.user_token]

\* ---------------------------------------------------------------------------
\* json/mod.rs : PandoraSession (the HTTP client handle is left out).
\* ---------------------------------------------------------------------------
\* impl ToEndpoint for Partner
to_endpoint(partner) == "https://" \o partner.endpoint_host \o "/services/json"

\* PandoraSession::new
PandoraSession_new(to_encryption_tokens, to_endpoint_) ==
  [endpoint_url |-> to_endpoint(to_endpoint_),
   tokens       |-> SessionTokens_new(to_encryption_tokens),
   json         |-> EmptyMap,
   args         |-> EmptyMap,
   encrypted    |-> FALSE]

\* Partner::init_session
init_session(partner) == PandoraSession_new(partner, partner)

\* A variant of copy_session whose copy has empty keys.
copy_session_dropping_keys(self) ==
  [endpoint_url |-> self.endpoint_url,
   tokens       |-> [self.tokens EXCEPT !.encrypt_key = "", !.decrypt_key = ""],
   json         |-> EmptyMap,
   args         |-> EmptyMap,
   encrypted    |-> FALSE]

\* PandoraSession::copy_session
copy_session(self) ==
  [endpoint_url |-> self.endpoint_url,
   tokens       |-> self.tokens,
   json         |-> EmptyMap,
   args         |-> EmptyMap,
   encrypted    |-> FALSE]

\* PandoraSession::endpoint, and an assignment through endpoint_mut
endpoint(self, to_endpoint_) == [self EXCEPT !.endpoint_url = to_endpoint(to_endpoint_)]

\* PandoraSession::json, and an assignment through json_mut
json(self, value) == [self EXCEPT !.json = value]

\* PandoraSession::arg
arg(self, key, value) == [self EXCEPT !.args = MapInsert(@, key, value)]

\* PandoraSession::encrypted
encrypted(self) == [self EXCEPT !.encrypted = TRUE]

\* PandoraSession::add_session_tokens_to_args
add_session_tokens_to_args(self) ==
  LET auth_token == OrElse(self.tokens.user_token, self.tokens.partner_token)
      s1 == IF IsSome(auth_token) THEN arg(self, "auth_token", auth_token[1]) ELSE self
      s2 == IF IsSome(self.tokens.partner_id) THEN arg(s1, "partner_id", self.tokens.partner_id[1]) ELSE s1
  IN  IF IsSome(self.tokens.user_id) THEN arg(s2, "user_id", self.tokens.user_id[1]) ELSE s2

\* A variant of add_session_tokens_to_json that leaves a key alone when the
\* json already has it.
add_session_tokens_to_json_if_absent(self) ==
  LET j1 == IF IsSome(self.tokens.partner_token) /\ "partnerAuthToken" \notin DOMAIN self.json
            THEN MapInsert(self.json, "partnerAuthToken", JString(self.tokens.partner_token[1]))
            ELSE self.json
      j2 == IF IsSome(self.tokens.user_token) /\ "userAuthToken" \notin DOMAIN j1
            THEN MapInsert(j1, "userAuthToken", JString(self.tokens.user_token[1]))
            ELSE j1
      j3 == IF IsSome(self.tokens.sync_time) /\ "syncTime" \notin DOMAIN j2
            THEN MapInsert(j2, "syncTime", JNumber(self.tokens.sync_time[1]))
            ELSE j2
  IN  IF ~IsObject(self.json) THEN [panic |-> TRUE, session |-> self]
      ELSE [panic |-> FALSE, session |-> [self EXCEPT !.json = j3]]

\* PandoraSession::add_session_tokens_to_json: the session afterwards, and
\* whether the expect on as_object_mut has panicked ("Programming Error
\* accessing API request json for modification."), which it does when the
\* json is no object.
add_session_tokens_to_json(self) ==
  LET j1 == IF IsSome(self.tokens.partner_token)
            THEN MapInsert(self.json, "partnerAuthToken", JString(self.tokens.partner_token[1]))
            ELSE self.json
      j2 == IF IsSome(self.tokens.user_token)
            THEN MapInsert(j1, "userAuthToken", JString(self.tokens.user_token[1]))
            ELSE j1
      j3 == IF IsSome(self.tokens.sync_time)
            THEN MapInsert(j2, "syncTime", JNumber(self.tokens.sync_time[1]))
            ELSE j2
  IN  IF ~IsObject(self.json) THEN [panic |-> TRUE, session |-> self]
      ELSE [panic |-> FALSE, session |-> [self EXCEPT !.json = j3]]

\* PandoraSession::build, its effect on the session it is called on, and
\* whether it has panicked: in add_session_tokens_to_json, or, the session
\* being encrypted, in crypt::encrypt on a key the cipher rejects.
build(self) ==
  [add_session_tokens_to_json(add_session_tokens_to_args(self))
     EXCEPT !.panic = @ \/ (self.encrypted /\ ~ValidKey(Utf8(self.tokens.encrypt_key)))]

\* The query pairs that build appends to the url: the args in key order.
QueryPairs(built) ==
  LET keys == SortedKeys(DOMAIN built.args)
  IN  AsSeq([i \in 1..Len(keys) |-> << keys[i], built.args[keys[i]] >>])

\* The url of the request that build returns, from the session as built.
Url(built) == [endpoint |-> built.endpoint_url, query |-> QueryPairs(built)]

\* The body of the request that build returns, from the session as built.
Body(built) ==
  LET body == to_string(built.json)
  IN  IF built.encrypted THEN encrypt(built.tokens.encrypt_key, body).hex ELSE body

\* ---------------------------------------------------------------------------
\* json/mod.rs : PandoraApiRequest.  A request value is its type, the method
\* name and encryption flag its derive attributes give it, and the JSON object
\* its fields serialize to.
\* ---------------------------------------------------------------------------
\* Partner::to_partner_login (auth::PartnerLogin: not encrypted)
to_partner_login(partner) ==
  [type         |-> "PartnerLogin",
   method       |-> "auth.partnerLogin",
   encrypted    |-> FALSE,
   serializable |-> TRUE,
   fields       |-> ("username" :> JString(partner.username))
                      @@ ("password" :> JString(partner.password))
                      @@ ("deviceModel" :> JString(partner.device_model))
                      @@ ("version" :> JString(partner.version))]

\* auth::UserLogin::new (encrypted = true)
UserLogin_new(username, password) ==
  [type         |-> "UserLogin",
   method       |-> "auth.userLogin",
   encrypted    |-> TRUE,
   serializable |-> TRUE,
   fields       |-> ("loginType" :> JString("user"))
                      @@ ("username" :> JString(username))
                      @@ ("password" :> JString(password))]

\* auth::UserLogin::and_string_option
and_string_option(self, option, value) ==
  [self EXCEPT !.fields = MapInsert(@, option, JString(value))]

\* station::DeleteStation::from (encrypted = true)
DeleteStation_from(station_token) ==
  [type         |-> "DeleteStation",
   method       |-> "station.deleteStation",
   encrypted    |-> TRUE,
   serializable |-> TRUE,
   fields       |-> ("stationToken" :> JString(station_token))]

\* A PandoraApiRequest of the caller's own whose Serialize impl fails.
Unserializable ==
  [type         |-> "Unserializable",
   method       |-> "test.checkLicensing",
   encrypted    |-> FALSE,
   serializable |-> FALSE,
   fields       |-> EmptyMap]

\* No request.
NoRequest ==
  [type |-> "", method |-> "", encrypted |-> FALSE, serializable |-> FALSE, fields |-> EmptyMap]

\* PandoraApiRequest::Response of a request type
ResponseType(self) ==
  CASE self.type = "PartnerLogin" -> "PartnerLoginResponse"
    [] self.type = "UserLogin" -> "UserLoginResponse"
    [] self.type = "DeleteStation" -> "DeleteStationResponse"
    [] OTHER -> "Unit"

\* PandoraApiRequest::get_method
get_method(self) == self.method

\* PandoraApiRequest::get_json
get_json(self) ==
  IF self.serializable THEN Ok(self.fields) ELSE Err(Error_from_serde("serialize"))

\* PandoraApiRequest::encrypt_request
encrypt_request(self) == self.encrypted

\* A variant of request that builds on the caller's session itself.
request_on_session(self, session) ==
  LET js   == get_json(self)
      tmp1 == json(arg(session, "method", get_method(self)), js.v)
      tmp2 == IF encrypt_request(self) THEN encrypted(tmp1) ELSE tmp1
      ok(b) == [session |-> b.session, built |-> IF b.panic THEN None ELSE Some(b.session),
                result |-> Ok("RequestBuilder"), panic |-> b.panic]
  IN  IF js.tag = "Err"
      THEN [session |-> session, built |-> None, result |-> js, panic |-> FALSE]
      ELSE ok(build(tmp2))

\* PandoraApiRequest::request: the caller's session afterwards, the session
\* the request was built from (none on error), the error if any, and whether
\* build has panicked (nothing is returned then).
request(self, session) ==
  LET js   == get_json(self)
      tmp1 == json(arg(session, "method", get_method(self)), js.v)
      tmp2 == IF encrypt_request(self) THEN encrypted(tmp1) ELSE tmp1
      ok(b) == [session |-> session, built |-> IF b.panic THEN None ELSE Some(b.session),
                result |-> Ok("RequestBuilder"), panic |-> b.panic]
  IN  IF js.tag = "Err"
      THEN [session |-> session, built |-> None, result |-> js, panic |-> FALSE]
      ELSE ok(build(tmp2))

\* What the transport hands back: a failure to send, a non-success HTTP
\* status, a body that is no envelope, or a decoded envelope.
Reply(transport, envelope) == [transport |-> transport, envelope |-> envelope]

NoEnvelope == PandoraResponse("", None, None, None)

\* A variant of response that clears the partner tokens alone.
response_clearing_partner(self, session, reply) ==
  LET rq      == request(self, session)
      result  == into(reply.envelope, ResponseType(self))
      invalid == result.tag = "Err" /\ result.v.kind = Kind("InvalidAuthToken")
      cleared == [rq.session EXCEPT !.tokens = clear_partner_tokens(@)]
  IN  IF rq.panic \/ rq.result.tag = "Err" THEN [sent |-> 0] @@ rq
      ELSE IF reply.transport # "ok"
      THEN [session |-> rq.session, built |-> rq.built,
            result |-> Err(Error_from_reqwest(reply.transport)), sent |-> 1, panic |-> FALSE]
      ELSE IF invalid
      THEN [session |-> cleared, built |-> rq.built,
            result |-> MapJsonErr(Err([kind |-> Kind("InvalidAuthToken"), message |-> result.v.message])),
            sent |-> 1, panic |-> FALSE]
      ELSE [session |-> rq.session, built |-> rq.built, result |-> MapJsonErr(result),
            sent |-> 1, panic |-> FALSE]

\* A variant of response that clears the tokens on every error of the API.
response_clearing_on_any_error(self, session, reply) ==
  LET rq      == request(self, session)
      result  == into(reply.envelope, ResponseType(self))
      cleared == [rq.session EXCEPT !.tokens = clear_user_tokens(clear_partner_tokens(@))]
  IN  IF rq.panic \/ rq.result.tag = "Err" THEN [sent |-> 0] @@ rq
      ELSE IF reply.transport # "ok"
      THEN [session |-> rq.session, built |-> rq.built,
            result |-> Err(Error_from_reqwest(reply.transport)), sent |-> 1, panic |-> FALSE]
      ELSE IF result.tag = "Err"
      THEN [session |-> cleared, built |-> rq.built, result |-> MapJsonErr(result), sent |-> 1, panic |-> FALSE]
      ELSE [session |-> rq.session, built |-> rq.built, result |-> MapJsonErr(result),
            sent |-> 1, panic |-> FALSE]

\* A variant of response that sends the request once more when the API
\* answers with an error.
response_retrying(self, session, reply) ==
  LET rq      == request(self, session)
      result  == into(reply.envelope, ResponseType(self))
      invalid == result.tag = "Err" /\ result.v.kind = Kind("InvalidAuthToken")
      cleared == [rq.session EXCEPT !.tokens = clear_user_tokens(clear_partner_tokens(@))]
  IN  IF rq.panic \/ rq.result.tag = "Err" THEN [sent |-> 0] @@ rq
      ELSE IF reply.transport # "ok"
      THEN [session |-> rq.session, built |-> rq.built,
            result |-> Err(Error_from_reqwest(reply.transport)), sent |-> 1, panic |-> FALSE]
      ELSE IF invalid
      THEN [session |-> cleared, built |-> rq.built,
            result |-> MapJsonErr(Err([kind |-> Kind("InvalidAuthToken"), message |-> result.v.message])),
            sent |-> 2, panic |-> FALSE]
      ELSE [session |-> rq.session, built |-> rq.built, result |-> MapJsonErr(result),
            sent |-> IF result.tag = "Err" THEN 2 ELSE 1, panic |-> FALSE]

\* PandoraApiRequest::response, given the transport's reply: the caller's
\* session afterwards, the session the request was built from (none when
\* request() fails), the result, the number of times a request was sent, and
\* whether request() has panicked.
response(self, session, reply) ==
  LET result  == into(reply.envelope, ResponseType(self))
      invalid == result.tag = "Err" /\ result.v.kind = Kind("InvalidAuthToken")
      cleared(s) == [s EXCEPT !.tokens = clear_user_tokens(clear_partner_tokens(@))]
      returned(rq) ==
        IF rq.panic \/ rq.result.tag = "Err" THEN [sent |-> 0] @@ rq
        ELSE IF reply.transport # "ok"
        THEN [session |-> rq.session, built |-> rq.built,
              result |-> Err(Error_from_reqwest(reply.transport)), sent |-> 1, panic |-> FALSE]
        ELSE IF invalid
        THEN [session |-> cleared(rq.session), built |-> rq.built,
              result |-> MapJsonErr(Err([kind |-> Kind("InvalidAuthToken"),
                                         message |-> result.v.message])),
              sent |-> 1, panic |-> FALSE]
        ELSE [session |-> rq.session, built |-> rq.built, result |-> MapJsonErr(result),
              sent |-> 1, panic |-> FALSE]
  IN  returned(request(self, session))

\* A login that returns the response without merging it.
login_without_merge(self, session, reply, clock) ==
  response(to_partner_login(self), session, reply)

\* Partner::login at instant clock, given the transport's reply.
login(self, session, reply, clock) ==
  LET merged(r, u) == [r EXCEPT !.session.tokens = u.tokens, !.panic = u.panic]
      returned(r) ==
        IF r.panic \/ r.result.tag = "Err"
        THEN r
        ELSE merged(r, update_partner_tokens(r.session.tokens, ToPartnerTokens(r.result.v),
                                             clock))
  IN  returned(response(to_partner_login(self), session, reply))
\* ---------------------------------------------------------------------------
\* The program: one long-lived session, the operations a caller applies to
\* it, and the clock.
\* ---------------------------------------------------------------------------
\* The clock stops advancing here.
MaxClock == 1

\* The partner of the session.
ThePartner == new_android

\* PartnerLoginResponse values the server may send.  The sync_time is the
\* one of the API documentation: 1335777573 behind four bytes of salt.
PartnerLoginResponses ==
  { [partner_id |-> "42", partner_auth_token |-> "PT1",
     sync_time |-> "6923e263a8c3ac690646146b50065f43"] }

\* PartnerLoginResponse values whose sync_time is no whole number of blocks:
\* the first four bytes of the one above.
CutShortResponses ==
  { [partner_id |-> "42", partner_auth_token |-> "PT1", sync_time |-> "6923e263"] }

\* UserLoginResponse values the server may send.
UserLoginResponses == { [user_id |-> "7", user_auth_token |-> "UT1"] }

\* The three body keys that build injects.
ReservedKeys == {"partnerAuthToken", "userAuthToken", "syncTime"}

\* A user login whose caller has put the reserved keys among its options.
UserLoginWithReservedKeys ==
  and_string_option(
    and_string_option(
      and_string_option(UserLogin_new("u", "p"), "partnerAuthToken", "CALLER"),
      "userAuthToken", "CALLER"),
    "syncTime", "CALLER")

\* Requests the caller submits: the partner login, the user login above, a
\* request of the caller's own whose parameters do not serialize, and one of
\* the caller's own whose parameters serialize to null (a unit struct), which
\* is no JSON object.
Requests ==
  { to_partner_login(ThePartner), UserLoginWithReservedKeys, Unserializable,
    [Unserializable EXCEPT !.type = "Unit", !.serializable = TRUE, !.fields = JNull] }

\* The result payloads a reply to a request may carry.
Payloads(T) ==
  IF T = "PartnerLoginResponse" THEN PartnerLoginResponses
  ELSE IF T = "UserLoginResponse" THEN UserLoginResponses
  ELSE IF T = "DeleteStationResponse" THEN { [optional |-> EmptyMap] }
  ELSE {}

\* The envelopes a reply to a request of response type T may hold: a success
\* with or without its payload, a failure with neither code nor message, a
\* failure with a code outside the table, the failure of too many playlist
\* requests, and the failure of an expired token, without and (against the
\* protocol) with a payload.
Envelopes(T) ==
  { PandoraResponse("Ok", result, None, None) :
      result \in {None} \cup {Some(p) : p \in Payloads(T)} }
    \cup { PandoraResponse("Fail", None, None, None),
           PandoraResponse("Fail", None, Some("unknown"), Some(9999)),
           PandoraResponse("Fail", None, Some("exceeded"), Some(1039)) }
    \cup { PandoraResponse("Fail", result, Some("expired"), Some(1001)) :
             result \in {None} \cup {Some(p) : p \in Payloads(T)} }

\* The replies of the transport to a request of response type T: a failure
\* to send, a non-success HTTP status, a body that is no envelope, or an
\* envelope.
Replies(T) ==
  {Reply(t, NoEnvelope) : t \in {"send", "status", "body"}}
    \cup {Reply("ok", e) : e \in Envelopes(T)}

\* The replies that response() of the request req can meet: the request is
\* not sent when it cannot be serialized.
RepliesTo(req) ==
  IF req.serializable THEN Replies(ResponseType(req)) ELSE {Reply("send", NoEnvelope)}

\* session  : the caller's long-lived PandoraSession
\* now      : the clock, in whole seconds
\* last     : the last operation and what it returned (after response() and
\*            login(), also how many times the request was handed to the
\*            transport; after update_partner_tokens, also the tokens the
\*            session held before)
\* panicked : the program has aborted
\* reauth   : response() has returned InvalidAuthToken and the caller has
\*            handed the session no token or sync time since
VARIABLES session, now, last, panicked, reauth

vars == << session, now, last, panicked, reauth >>

\* What the last operation was and what it returned: the request value, the
\* session the request was built from, the transport's reply and the result.
Last(op, req, built, reply, result) ==
  [op |-> op, req |-> req, built |-> built, reply |-> reply, result |-> result]

Idle == Last("idle", NoRequest, None, None, None)

\* What response() or login() of the request req returned as r, the reply
\* having been met when a request was built, and how many times it was sent.
Returned(op, req, reply, r) ==
  [sent |-> r.sent]
    @@ Last(op, req, r.built, IF IsSome(r.built) THEN Some(reply) ELSE None, Some(r.result))

\* Whether a result is the InvalidAuthToken error.
IsInvalidAuthToken(result) ==
  /\ result.tag = "Err"
  /\ result.v.variant = "PandoraJsonRequestError"
  /\ result.v.source.kind = Kind("InvalidAuthToken")

Init ==
  /\ session = init_session(ThePartner)
  /\ now = 0
  /\ last = Idle
  /\ panicked = FALSE
  /\ reauth = FALSE

\* The query argument a caller adds: one under the name build uses for the
\* token.
CallerArgs == { << "auth_token", "CALLER" >> }

\* The json a caller sets: a value that is no object.
CallerJsons == { JNull }

\* The endpoint a caller sets: the profile's, with the host of the desktop
\* profiles.
CallerEndpoints == { [ThePartner EXCEPT !.endpoint_host = "internal-tuner.pandora.com"] }

\* session.arg(key, value) by the caller
Arg ==
  /\ ~panicked
  /\ \E a \in CallerArgs : session' = arg(session, a[1], a[2])
  /\ last' = Idle
  /\ UNCHANGED << now, panicked, reauth >>

\* session.json(value) by the caller, or *session.json_mut() = value
Json ==
  /\ ~panicked
  /\ \E value \in CallerJsons : session' = json(session, value)
  /\ last' = Idle
  /\ UNCHANGED << now, panicked, reauth >>

\* session.endpoint(to_endpoint) by the caller, or an assignment through
\* session.endpoint_mut()
Endpoint ==
  /\ ~panicked
  /\ \E e \in CallerEndpoints : session' = endpoint(session, e)
  /\ last' = Idle
  /\ UNCHANGED << now, panicked, reauth >>

\* session.encrypted() by the caller
Encrypted ==
  /\ ~panicked
  /\ session' = encrypted(session)
  /\ last' = Idle
  /\ UNCHANGED << now, panicked, reauth >>

\* The caller goes on with session.copy_session().
CopySession ==
  /\ ~panicked
  /\ session' = copy_session(session)
  /\ last' = Idle
  /\ UNCHANGED << now, panicked, reauth >>

\* session.update_partner_tokens(&response), the response one of responses;
\* last keeps the tokens the session held before.
UpdatePartnerTokens(responses) ==
  /\ ~panicked
  /\ \E r \in responses :
       LET updated(u) == /\ session' = [session EXCEPT !.tokens = u.tokens]
                         /\ panicked' = u.panic
       IN  /\ updated(update_partner_tokens(session.tokens, ToPartnerTokens(r), now))
           /\ last' = [before |-> session.tokens]
                         @@ Last("update_partner_tokens", NoRequest, None, None, Some(Ok(r)))
  /\ reauth' = FALSE
  /\ UNCHANGED now

\* session.update_user_tokens(&response)
UpdateUserTokens ==
  /\ ~panicked
  /\ \E r \in UserLoginResponses :
       session' = [session EXCEPT !.tokens = update_user_tokens(@, ToUserTokens(r))]
  /\ last' = Idle
  /\ reauth' = FALSE
  /\ UNCHANGED << now, panicked >>

\* session.session_tokens_mut().set_sync_time(...)
SetSyncTime ==
  /\ ~panicked
  /\ \E t \in {1335777573} :
       session' = [session EXCEPT !.tokens = set_sync_time(@, t, now)]
  /\ last' = Idle
  /\ reauth' = FALSE
  /\ UNCHANGED << now, panicked >>

\* session.session_tokens_mut().clear_sync_time()
ClearSyncTime ==
  /\ ~panicked
  /\ session' = [session EXCEPT !.tokens = clear_sync_time(@)]
  /\ last' = Idle
  /\ UNCHANGED << now, panicked, reauth >>

\* session.session_tokens_mut().clear_partner_tokens()
ClearPartnerTokens ==
  /\ ~panicked
  /\ session' = [session EXCEPT !.tokens = clear_partner_tokens(@)]
  /\ last' = Last("clear_partner_tokens", NoRequest, None, None, None)
  /\ UNCHANGED << now, panicked, reauth >>

\* session.session_tokens_mut().clear_user_tokens()
ClearUserTokens ==
  /\ ~panicked
  /\ session' = [session EXCEPT !.tokens = clear_user_tokens(@)]
  /\ last' = Last("clear_user_tokens", NoRequest, None, None, None)
  /\ UNCHANGED << now, panicked, reauth >>

\* session.session_tokens().get_sync_time()
GetSyncTime ==
  /\ ~panicked
  /\ last' = Last("get_sync_time", NoRequest, None, None, Some(get_sync_time(session.tokens, now)))
  /\ UNCHANGED << session, now, panicked, reauth >>

\* session.build() by the caller, on the session itself
Build ==
  /\ ~panicked
  /\ LET returned(b) == /\ session' = b.session
                         /\ panicked' = b.panic
     IN  returned(build(session))
  /\ last' = Last("build", NoRequest, IF panicked' THEN None ELSE Some(session'), None, None)
  /\ UNCHANGED << now, reauth >>

\* req.request(&mut session)
Request ==
  /\ ~panicked
  /\ \E req \in Requests :
       LET returned(r) == /\ session' = r.session
                          /\ panicked' = r.panic
                          /\ last' = Last("request", req, r.built, None, Some(r.result))
       IN  returned(request(req, session))
  /\ UNCHANGED << now, reauth >>

\* req.response(&mut session)
Response ==
  /\ ~panicked
  /\ \E req \in Requests : \E reply \in RepliesTo(req) :
       LET returned(r) == /\ session' = r.session
                          /\ panicked' = r.panic
                          /\ last' = Returned("response", req, reply, r)
                          /\ reauth' = (reauth \/ IsInvalidAuthToken(r.result))
       IN  returned(response(req, session, reply))
  /\ UNCHANGED now

\* partner.login(&mut session), the transport's reply one of replies
Login(replies) ==
  /\ ~panicked
  /\ \E reply \in replies :
       LET returned(r) == /\ session' = r.session
                          /\ panicked' = r.panic
                          /\ last' = Returned("login", to_partner_login(ThePartner), reply, r)
                          /\ reauth' = IF r.result.tag = "Ok" THEN FALSE
                                       ELSE (reauth \/ IsInvalidAuthToken(r.result))
       IN  returned(login(ThePartner, session, reply, now))
  /\ UNCHANGED now

\* A second passes.
Tick ==
  /\ ~panicked
  /\ now < MaxClock
  /\ now' = now + 1
  /\ last' = Idle
  /\ UNCHANGED << session, panicked, reauth >>

Next ==
  \/ Arg
  \/ Json
  \/ Endpoint
  \/ Encrypted
  \/ CopySession
  \/ UpdatePartnerTokens(PartnerLoginResponses)
  \/ UpdateUserTokens
  \/ SetSyncTime
  \/ ClearSyncTime
  \/ ClearPartnerTokens
  \/ ClearUserTokens
  \/ GetSyncTime
  \/ Build
  \/ Request
  \/ Response
  \/ Login(Replies("PartnerLoginResponse"))
  \/ Tick

Spec == Init /\ [][Next]_vars

\* The program whose caller leaves the sync time to the partner login: no
\* set_sync_time and no clear_sync_time of the caller's own.  The server may
\* answer the partner login with a sync_time that is cut short.
NextMerges ==
  \/ Arg
  \/ Json
  \/ Endpoint
  \/ Encrypted
  \/ CopySession
  \/ UpdatePartnerTokens(PartnerLoginResponses \cup CutShortResponses)
  \/ UpdateUserTokens
  \/ ClearPartnerTokens
  \/ ClearUserTokens
  \/ GetSyncTime
  \/ Build
  \/ Request
  \/ Response
  \/ Login(Replies("PartnerLoginResponse")
             \cup {Reply("ok", PandoraResponse("Ok", Some(p), None, None)) : p \in CutShortResponses})
  \/ Tick

SpecMerges == Init /\ [][NextMerges]_vars


\* ---------------------------------------------------------------------------
\* The conversion of a response envelope on its own: the envelope and the
\* response type are drawn at the start, the conversion is applied to them.
\* ---------------------------------------------------------------------------
\* Requests of the three response types.
TypedRequests ==
  { to_partner_login(ThePartner), UserLogin_new("u", "p"), DeleteStation_from("S1") }

\* Every envelope over a few payloads, messages and codes.
AllEnvelopes(T) ==
  { PandoraResponse(stat, result, message, code) :
      stat \in {"Ok", "Fail"},
      result \in {None} \cup {Some(p) : p \in Payloads(T)},
      message \in {None, Some("expired"), Some("Invalid JSON content.")},
      code \in {None, Some(0), Some(1001), Some(1002), Some(9999)} }

InitInto ==
  /\ session = init_session(ThePartner)
  /\ now = 0
  /\ panicked = FALSE
  /\ reauth = FALSE
  /\ \E req \in TypedRequests : \E e \in AllEnvelopes(ResponseType(req)) :
       last = Last("envelope", req, None, Some(Reply("ok", e)), None)

\* let result: Result<Self::Response, JsonError> = response_obj.into();
Into ==
  /\ last.op = "envelope"
  /\ last' = Last("into", last.req, None, last.reply,
                  Some(into(last.reply[1].envelope, ResponseType(last.req))))
  /\ UNCHANGED << session, now, panicked, reauth >>

NextInto == Into

SpecInto == InitInto /\ [][NextInto]_vars


\* ---------------------------------------------------------------------------
\* JsonError::new on its own: the code and the message are drawn at the
\* start, the constructor is applied to them.
\* ---------------------------------------------------------------------------
\* The codes drawn run from 0 to MaxCode, past the last code of the table.
MaxCode == 1100

\* Option<u32> codes: none, every code up to MaxCode, and two codes far past
\* the table.
Codes == {None} \cup {Some(c) : c \in (0..MaxCode) \cup {9999, 2147483647}}

InitJsonError ==
  /\ session = init_session(ThePartner)
  /\ now = 0
  /\ panicked = FALSE
  /\ reauth = FALSE
  /\ \E code \in Codes : \E message \in {None, Some("expired")} :
       last = Last("code", NoRequest, None,
                   Some(Reply("ok", PandoraResponse("Fail", None, message, code))), None)

\* JsonError::new(code, message)
JsonErrorNew ==
  /\ last.op = "code"
  /\ last' = Last("JsonError::new", NoRequest, None, last.reply,
                  Some(JsonError_new(last.reply[1].envelope.code, last.reply[1].envelope.message)))
  /\ UNCHANGED << session, now, panicked, reauth >>

SpecJsonError == InitJsonError /\ [][JsonErrorNew]_vars


\* ---------------------------------------------------------------------------
\* The creation of a session on its own: the partner is drawn at the start,
\* init_session is applied to it.
\* ---------------------------------------------------------------------------
\* Partner::new_android, new_ios, new_palm, new_windows_mobile,
\* new_desktop_air and new_vista_widget
Profiles ==
  { new_android,
    [username         |-> "iphone",
     password         |-> "P2E4FC0EAD3*878N92B2CDp34I0B1@388137C",
     device_model     |-> "IP01",
     version          |-> "5",
     decrypt_password |-> "20zE1E47BE57$51",
     encrypt_password |-> "721^26xE22776",
     endpoint_host    |-> "tuner.pandora.com"],
    [username         |-> "palm",
     password         |-> "IUC7IBG09A3JTSYM4N11UJWL07VLH8JP0",
     device_model     |-> "pre",
     version          |-> "5",
     decrypt_password |-> "E#U$MY$O2B=",
     encrypt_password |-> "%526CBL$ZU3",
     endpoint_host    |-> "tuner.pandora.com"],
    [username         |-> "winmo",
     password         |-> "ED227E10a628EB0E8Pm825Dw7114AC39",
     device_model     |-> "VERIZON_MOTOQ9C",
     version          |-> "5",
     decrypt_password |-> "7D671jt0C5E5d251",
     encrypt_password |-> "v93C8C2s12E0EBD",
     endpoint_host    |-> "tuner.pandora.com"],
    [username         |-> "pandora one",
     password         |-> "TVCKIBGS9AO9TSYLNNFUML0743LH82D",
     device_model     |-> "D01",
     version          |-> "5",
     decrypt_password |-> "U#IO$RZPAB%VX2",
     encrypt_password |-> "2%3WCL*JU$MP]4",
     endpoint_host    |-> "internal-tuner.pandora.com"],
    [username         |-> "windowsgadget",
     password         |-> "EVCCIBGS9AOJTSYMNNFUML07VLH8JYP0",
     device_model     |-> "WG01",
     version          |-> "5",
     decrypt_password |-> "E#IO$MYZOAB%FVR2",
     encrypt_password |-> "%22CML*ZU$8YXP[1",
     endpoint_host    |-> "internal-tuner.pandora.com"] }

\* Partner values: the profiles, and the profiles with a key or the host of
\* the caller's own (the fields are public).  The hosts are host names that
\* Url::parse keeps as they are.
Partners ==
  { [p EXCEPT !.encrypt_password = k, !.decrypt_password = d, !.endpoint_host = h] :
      p \in Profiles, k \in {"", "K1"}, d \in {"", "K2"},
      h \in {"tuner.pandora.com", "internal-tuner.pandora.com", "localhost"} }
    \cup Profiles

InitPartner ==
  /\ session = init_session(ThePartner)
  /\ now = 0
  /\ panicked = FALSE
  /\ reauth = FALSE
  /\ \E partner \in Partners : last = [partner |-> partner] @@ Last("partner", NoRequest, None, None, None)

\* partner.init_session()
InitSession ==
  /\ last.op = "partner"
  /\ session' = init_session(last.partner)
  /\ last' = [last EXCEPT !.op = "init_session"]
  /\ UNCHANGED << now, panicked, reauth >>

SpecInitSession == InitPartner /\ [][InitSession]_vars


\* ---------------------------------------------------------------------------
\* update_partner_tokens on its own: the session, the instant and the
\* partner login response are drawn at the start, the update is applied.
\* ---------------------------------------------------------------------------
\* The sync_time fields servers may send: the hex of the encryption, under
\* the key the profile decrypts with, of four bytes of salt and then
SyncTimeFields ==
     { "6923e263a8c3ac690646146b50065f43",  \* 1335777573
       "4a6b45612b018614c92c50dc73462bbd",  \* (no salt) the text of the test of crypt.rs
       "ebd71f22a26681a0",  \* nothing
       "9540d7c692fd5b91",  \* abc
       "bb0943ff7bd2748f",  \* 12a
       "a92f6c2e9da345bc",  \* the bytes ff fe
       "0ab2a18806cf1f9c",  \* +12
       "9dc3450f0342aef3",  \* -1
       "935f757770716b77",  \* a space and 12
       "fc3e4a62c48e4f23",  \* 007
       "c99a866779ed6973",  \* 0
       "ccbd03d2988a73e9cf70bb54d744430f",  \* two full-width digits
       "ecb9e7520c929766634631e2453b0b06634631e2453b0b060b66ceb11dddbf67",  \* twenty-one 9s
       "b97b449e6eb5f69b",  \* the two bytes ab and no more
       "91bfc397a0965841",  \* a salt that begins with the padding byte, then 1234
       "a62b15a0d86139540646146b50065f43",  \* the padding byte, ABC and 1335777573
       "f08faadf89ea8a6f0646146b50065f43",  \* A, the padding byte, BC and 1335777573
       "d1b4c9a2a43292f50646146b50065f43",  \* ABC, the padding byte and 1335777573
       "ce6a89a68f337d3830cf8aaae37280c8",  \* 13, the padding byte and 57
       "88702d81756cb967",  \* 1234 in a whole block, no padding
       "28ab5de309f32393634631e2453b0b06634631e2453b0b06",  \* twenty 9s
       "bac048f1c8848a3622f5020de6ed0c73ec65d87d03ed0bec",  \* 18446744073709551616, one above u64::MAX
       "5db1b660676011b70bb7cc8c111f46912e077c4d6d9575d1",  \* nineteen 0s and 1
       "",  \* no byte at all
       "6923e263a8c3ac6",  \* fifteen characters: eight bytes
       "6923e263",  \* four bytes
       "6923e263a8c3ac69064614",  \* eleven bytes
       "6923e263a8c3ac690646146b50065f4300" }  \* seventeen bytes

\* PartnerLoginResponse values over those sync_time fields.
AnyPartnerLoginResponses ==
  { [partner_id |-> i, partner_auth_token |-> t, sync_time |-> c] :
      i \in {"42", "43"}, t \in {"PT1", "PT2"}, c \in SyncTimeFields }

\* The session before: fresh, or holding the partner tokens and the sync time
\* of an earlier partner login at the instant 0.
InitUpdatePartner ==
  /\ session \in { init_session(ThePartner),
                   [init_session(ThePartner) EXCEPT
                      !.tokens = set_sync_time([@ EXCEPT !.partner_id = Some("41"),
                                                         !.partner_token = Some("PT0")],
                                               1335777573, 0)] }
  /\ now \in 0..MaxClock
  /\ panicked = FALSE
  /\ reauth = FALSE
  /\ \E r \in AnyPartnerLoginResponses :
       last = Last("PartnerLoginResponse", to_partner_login(ThePartner), None, None, Some(Ok(r)))

\* session.update_partner_tokens(&response) for the response in hand
UpdatePartnerTokensFrom ==
  /\ last.op = "PartnerLoginResponse"
  /\ LET u == update_partner_tokens(session.tokens, ToPartnerTokens(last.result[1].v), now)
     IN  /\ session' = [session EXCEPT !.tokens = u.tokens]
         /\ panicked' = u.panic
  /\ last' = [last EXCEPT !.op = "update_partner_tokens"]
  /\ UNCHANGED << now, reauth >>

SpecUpdatePartner == InitUpdatePartner /\ [][UpdatePartnerTokensFrom]_vars


\* ---------------------------------------------------------------------------
\* crypt::encrypt and crypt::decrypt on their own: the key and the plaintext
\* or the hex input are drawn at the start; a plaintext is encrypted and the
\* result decrypted, a hex input is decrypted.
\* ---------------------------------------------------------------------------
\* The bytes of the strings that are encrypted: letters and digits of every
\* length from none to two blocks and a byte, digits with the padding byte
\* among them, and the plaintext of the test of crypt.rs.
Plaintexts ==
  { AsSeq([i \in 1..n |-> 97 + ((i - 1) % 26)]) : n \in 0..17 }
    \cup { AsSeq([i \in 1..n |-> IF i = k THEN PADDING_BYTE ELSE 48 + (i % 10)]) :
             n \in 1..9, k \in 1..10 }
    \cup { << 195, 168, 46, 60, 195, 154, 49, 52, 55, 55, 54, 51, 49, 57, 48, 51 >> }

\* The bytes of the strings that are decrypted: the sync_time fields, every
\* prefix of one of them, and that one with one pair of characters replaced
\* by "zz", "+f", "g0", "0g", "AB", " 1", "-1" or "++".
HexInputs ==
  LET good == Utf8("6923e263a8c3ac690646146b50065f43")
  IN  { Utf8(c) : c \in SyncTimeFields }
        \cup { SubSeq(good, 1, n) : n \in 0..Len(good) }
        \cup { [good EXCEPT ![2 * k - 1] = p[1], ![2 * k] = p[2]] :
                 k \in 1..(Len(good) \div 2),
                 p \in { << 122, 122 >>, << 43, 102 >>, << 103, 48 >>, << 48, 103 >>,
                         << 65, 66 >>, << 32, 49 >>, << 45, 49 >>, << 43, 43 >> } }

\* The keys: the profile's two; the shortest and the longest the cipher
\* takes, of 4 and of 56 bytes; and keys it rejects, of 0, 1, 2, 3 and 57
\* bytes.
CryptKeys ==
  ProfileKeys
    \cup BoundaryKeys
    \cup { "", "u", "S1", "PT1",
           "ecb9e7520c929766634631e2453b0b06634631e2453b0b060b66ceb11" }

InitCrypt ==
  /\ session = init_session(ThePartner)
  /\ now = 0
  /\ panicked = FALSE
  /\ reauth = FALSE
  /\ \E key \in CryptKeys :
       \/ \E s \in Plaintexts :
            last = [op |-> "plaintext", key |-> key, plaintext |-> Some(s), hex |-> None, bytes |-> None]
       \/ \E h \in HexInputs :
            last = [op |-> "hex", key |-> key, plaintext |-> None, hex |-> Some(h), bytes |-> None]

\* encrypt(key, input)
EncryptPlaintext ==
  /\ last.op = "plaintext"
  /\ LET e == encrypt(last.key, last.plaintext[1])
     IN  /\ panicked' = e.panic
         /\ last' = [last EXCEPT !.op = "encrypt", !.hex = IF e.panic THEN None ELSE Some(e.hex)]
  /\ UNCHANGED << session, now, reauth >>

\* decrypt(key, hex_input), of the hex input or of what encrypt returned
DecryptHex ==
  /\ ~panicked
  /\ last.op \in {"hex", "encrypt"}
  /\ LET d == decrypt(last.key, last.hex[1])
     IN  /\ panicked' = d.panic
         /\ last' = [last EXCEPT !.op = "decrypt", !.bytes = IF d.panic THEN None ELSE Some(d.bytes)]
  /\ UNCHANGED << session, now, reauth >>

SpecCrypt == InitCrypt /\ [][EncryptPlaintext \/ DecryptHex]_vars

\* ---------------------------------------------------------------------------
\* Properties.
\* ---------------------------------------------------------------------------

\* C1: when response() (also inside login) decodes an envelope whose error
\* kind is InvalidAuthToken, a failure with code 1001, the session's
\* partner_id, partner_token, user_id and user_token are all absent on
\* return, and the caller is returned the InvalidAuthToken error with the
\* envelope's message.
C1_InvalidAuthTokenClearsTokens ==
  (/\ last.op \in {"response", "login"}
   /\ IsSome(last.reply)
   /\ last.reply[1].transport = "ok"
   /\ last.reply[1].envelope.stat = "Fail"
   /\ last.reply[1].envelope.code = Some(1001))
  => /\ session.tokens.partner_id = None
     /\ session.tokens.partner_token = None
     /\ session.tokens.user_id = None
     /\ session.tokens.user_token = None
     /\ last.result =
          Some(Err([variant |-> "PandoraJsonRequestError",
                    source  |-> [kind    |-> [name |-> "InvalidAuthToken", code |-> 0],
                                 message |-> last.reply[1].envelope.message]]))

\* A response() that met code 1001 on a session holding both token pairs.
C1_Witness ==
  /\ last.op = "response"
  /\ IsSome(last.reply)
  /\ last.reply[1].envelope.stat = "Fail"
  /\ last.reply[1].envelope.code = Some(1001)
  /\ last.reply[1].envelope.message = Some("expired")
  /\ IsSome(last.built)
  /\ last.built[1].tokens.partner_token = Some("PT1")
  /\ last.built[1].tokens.partner_id = Some("42")
  /\ last.built[1].tokens.user_token = Some("UT1")
  /\ last.built[1].tokens.user_id = Some("7")
  /\ session.tokens.partner_token = None

\* C2: once response() has returned InvalidAuthToken, and until the caller
\* hands the session a token (or a sync time) again, every request built from
\* the session, its payload holding no reserved key, carries no auth_token,
\* partner_id or user_id query argument and no partnerAuthToken, userAuthToken
\* or syncTime body field.  (An auth_token argument that the caller has added
\* with arg() is the caller's own and is left aside.)
C2_NoCredentialsUntilHandshake ==
  [][(/\ reauth
      /\ IsSome(last'.built)
      /\ MapGet(last'.built[1].args, "auth_token") # Some("CALLER")
      /\ DOMAIN last'.req.fields \cap ReservedKeys = {})
     => /\ DOMAIN last'.built[1].args \cap {"auth_token", "partner_id", "user_id"} = {}
        /\ DOMAIN last'.built[1].json \cap ReservedKeys = {}]_vars

\* C3: in every built request the auth_token query argument is the user token
\* if there is one, else the partner token if there is one, and is left out
\* when there is neither, whatever builds, updates and clears came before.
\* (An auth_token argument that the caller has added with arg() is the
\* caller's own and is left aside.)
C3_AuthTokenArgument ==
  (IsSome(last.built) /\ MapGet(last.built[1].args, "auth_token") # Some("CALLER")) =>
    LET b == last.built[1]
    IN  IF IsSome(b.tokens.user_token)
        THEN "auth_token" \in DOMAIN b.args /\ b.args["auth_token"] = b.tokens.user_token[1]
        ELSE IF IsSome(b.tokens.partner_token)
        THEN "auth_token" \in DOMAIN b.args /\ b.args["auth_token"] = b.tokens.partner_token[1]
        ELSE "auth_token" \notin DOMAIN b.args

\* C4: the JSON body of a built request, its payload holding no reserved key,
\* has partnerAuthToken exactly when a partner token is present, userAuthToken
\* exactly when a user token is present and syncTime exactly when a sync time
\* is available.
C4_BodyFieldsFollowTokens ==
  (IsSome(last.built) /\ DOMAIN last.req.fields \cap ReservedKeys = {}) =>
    LET b == last.built[1]
    IN  /\ "partnerAuthToken" \in DOMAIN b.json <=> IsSome(b.tokens.partner_token)
        /\ "userAuthToken" \in DOMAIN b.json <=> IsSome(b.tokens.user_token)
        /\ "syncTime" \in DOMAIN b.json <=> IsSome(get_sync_time(b.tokens, now))

\* C5: the syncTime put into the body of a built request, its payload holding
\* no syncTime, is what get_sync_time() returns at build time: the stored base
\* plus the whole seconds since it was captured.
C5_SyncTimeIsComputed ==
  (/\ IsSome(last.built)
   /\ "syncTime" \notin DOMAIN last.req.fields
   /\ IsSome(get_sync_time(last.built[1].tokens, now)))
  => /\ "syncTime" \in DOMAIN last.built[1].json
     /\ last.built[1].json["syncTime"] = JNumber(get_sync_time(last.built[1].tokens, now)[1])

\* C6, as the spec has it: a reserved key of the caller's payload keeps the
\* caller's value in the built body.
C6_CallerValueKept ==
  (last.op = "request" /\ IsSome(last.built)) =>
    \A k \in DOMAIN last.req.fields \cap ReservedKeys :
       last.built[1].json[k] = last.req.fields[k]

\* C6, amended: a key of the caller's payload that build injects has the
\* session's value in the built body whenever the session holds one (the
\* partner token, the user token, the stored sync time), and the caller's
\* value only when the session holds none; every other key of the payload
\* keeps the caller's value.
C6_SessionValueWins ==
  (last.op = "request" /\ IsSome(last.built)) =>
    LET b == last.built[1]
    IN  \A k \in DOMAIN last.req.fields :
          b.json[k] =
            IF k = "partnerAuthToken" /\ IsSome(b.tokens.partner_token)
            THEN [t |-> "String", s |-> b.tokens.partner_token[1], n |-> 0]
            ELSE IF k = "userAuthToken" /\ IsSome(b.tokens.user_token)
            THEN [t |-> "String", s |-> b.tokens.user_token[1], n |-> 0]
            ELSE IF k = "syncTime" /\ IsSome(b.tokens.sync_time)
            THEN [t |-> "Number", s |-> "", n |-> b.tokens.sync_time[1]]
            ELSE last.req.fields[k]

\* A request whose payload has the reserved keys, built from a session with
\* a partner token and a sync time and no user token.
C6_Witness ==
  /\ last.op = "request"
  /\ IsSome(last.built)
  /\ ReservedKeys \subseteq DOMAIN last.req.fields
  /\ last.req.fields["partnerAuthToken"] = JString("CALLER")
  /\ last.built[1].tokens.partner_token = Some("PT1")
  /\ last.built[1].tokens.user_token = None
  /\ IsSome(last.built[1].tokens.sync_time)
  /\ last.built[1].json["partnerAuthToken"] = JString("PT1")
  /\ last.built[1].json["userAuthToken"] = JString("CALLER")
  /\ last.built[1].json["syncTime"].t = "Number"

\* C7: request() leaves the caller's session as it was, tokens, query
\* arguments, JSON body, encrypted flag and endpoint url, whether it returns a
\* request or a serialization error.
C7_RequestLeavesSession ==
  [][last'.op = "request" =>
       /\ session'.tokens = session.tokens
       /\ session'.args = session.args
       /\ session'.json = session.json
       /\ session'.encrypted = session.encrypted
       /\ session'.endpoint_url = session.endpoint_url]_vars

\* A request() of an encrypted call that built, from a session with tokens, a
\* request with query arguments, body and flag that the session does not have.
C7_Witness ==
  /\ last.op = "request"
  /\ IsSome(last.built)
  /\ IsSome(session.tokens.user_token)
  /\ last.built[1].args # session.args
  /\ last.built[1].json # session.json
  /\ last.built[1].encrypted # session.encrypted

\* C8: the body of a request built by request() is the hex of the encrypted
\* serialized JSON exactly when the request's encrypt_request() is true, and
\* the serialized JSON itself otherwise, whatever was done to the session
\* before.
C8_EncryptedIffRequestFlag ==
  (last.op = "request" /\ IsSome(last.built)) =>
    Body(last.built[1]) =
      IF encrypt_request(last.req)
      THEN encrypt(last.built[1].tokens.encrypt_key, to_string(last.built[1].json)).hex
      ELSE to_string(last.built[1].json)

\* C9: an envelope with status Ok converts to success with its payload when it
\* has one; without one, to the response type decoded from the empty object,
\* and where that does not decode to the error of kind UnknownErrorMessage
\* with message "Invalid JSON content."; the envelope's code and message play
\* no part.
C9_OkEnvelope ==
  (last.op = "into" /\ last.reply[1].envelope.stat = "Ok") =>
    LET e == last.reply[1].envelope
        T == ResponseType(last.req)
    IN  last.result[1] =
          IF IsSome(e.result) THEN [tag |-> "Ok", v |-> e.result[1]]
          ELSE IF T = "DeleteStationResponse" THEN [tag |-> "Ok", v |-> [optional |-> EmptyMap]]
          ELSE [tag |-> "Err",
                v   |-> [kind    |-> [name |-> "UnknownErrorMessage", code |-> 0],
                         message |-> Some("Invalid JSON content.")]]

\* An Ok envelope without payload, with a code and a message of its own, for a
\* response type that does not decode from the empty object, converted.
C9_Witness ==
  /\ last.op = "into"
  /\ last.reply[1].envelope.stat = "Ok"
  /\ last.reply[1].envelope.result = None
  /\ last.reply[1].envelope.code = Some(1001)
  /\ last.reply[1].envelope.message = Some("expired")
  /\ ResponseType(last.req) = "PartnerLoginResponse"
  /\ last.result[1].tag = "Err"

\* C10: an envelope with status Fail converts to the error made of its code
\* and message, never to a success, payload or not.
C10_FailEnvelope ==
  (last.op = "into" /\ last.reply[1].envelope.stat = "Fail") =>
    /\ last.result[1].tag = "Err"
    /\ last.result[1].v.message = last.reply[1].envelope.message
    /\ last.result[1].v.kind =
         IF last.reply[1].envelope.code = None
         THEN [name |-> "UnknownErrorMessage", code |-> 0]
         ELSE JsonErrorKind_from(last.reply[1].envelope.code[1])

\* A Fail envelope that has a payload, converted.
C10_Witness ==
  /\ last.op = "into"
  /\ last.reply[1].envelope.stat = "Fail"
  /\ IsSome(last.reply[1].envelope.result)
  /\ last.reply[1].envelope.code = Some(9999)
  /\ last.result[1].tag = "Err"
  /\ last.result[1].v.kind = [name |-> "UnknownErrorCode", code |-> 9999]

\* C11: JsonError::new maps code 1001 to InvalidAuthToken, code 1039 to
\* PlaylistExceeded, every code outside the fixed table to UnknownErrorCode
\* carrying that code, and an absent code to UnknownErrorMessage; no code
\* other than 1001 maps to InvalidAuthToken; the message is kept as given.
C11_CodeToKind ==
  last.op = "JsonError::new" =>
    LET code  == last.reply[1].envelope.code
        err   == last.result[1]
        Table == (0..15) \cup (1000..1015) \cup {1018, 1020} \cup (1023..1027)
                   \cup (1034..1037) \cup {1039}
    IN  /\ err.message = last.reply[1].envelope.message
        /\ code = None => err.kind = [name |-> "UnknownErrorMessage", code |-> 0]
        /\ code = Some(1001) => err.kind = [name |-> "InvalidAuthToken", code |-> 0]
        /\ code = Some(1039) => err.kind = [name |-> "PlaylistExceeded", code |-> 0]
        /\ (code # None /\ code[1] \notin Table)
             => err.kind = [name |-> "UnknownErrorCode", code |-> code[1]]
        /\ (code # None /\ code[1] \in Table) => err.kind.name # "UnknownErrorCode"
        /\ err.kind.name = "InvalidAuthToken" => code = Some(1001)

\* JsonError::new applied to code 9999, outside the table.
C11_Witness ==
  /\ last.op = "JsonError::new"
  /\ last.reply[1].envelope.code = Some(9999)
  /\ last.reply[1].envelope.message = Some("expired")
  /\ last.result[1] = [kind |-> [name |-> "UnknownErrorCode", code |-> 9999],
                       message |-> Some("expired")]

\* C12: in every state reached by new, update_partner_tokens,
\* update_user_tokens, set_sync_time, clear_sync_time, clear_partner_tokens
\* and clear_user_tokens (and by the calls that use them), the stored sync
\* time and the captured local instant are both present or both absent.
C12_SyncTimePair ==
  IsSome(session.tokens.sync_time) <=> IsSome(session.tokens.local_time_base)

\* A session whose partner tokens were set, and with them the sync time at
\* the instant 1, and whose sync time was cleared afterwards.
C12_Witness ==
  /\ session.tokens.partner_token = Some("PT1")
  /\ session.tokens.sync_time = None
  /\ session.tokens.local_time_base = None
  /\ now = 1

\* C13: get_sync_time() returns nothing when no sync time is set and
\* otherwise the stored base plus the whole seconds since it was captured, a
\* value at least the one last passed to set_sync_time; and over any step that
\* neither sets nor clears the sync time, what it returns does not decrease.
C13_GetSyncTime ==
  /\ [](last.op = "get_sync_time" =>
          /\ session.tokens.sync_time = None => last.result[1] = None
          /\ session.tokens.sync_time # None =>
               /\ last.result[1] =
                    Some(session.tokens.sync_time[1] + (now - session.tokens.local_time_base[1]))
               /\ last.result[1][1] >= session.tokens.sync_time[1])
  /\ [][(/\ session.tokens.sync_time # None
         /\ session'.tokens.sync_time = session.tokens.sync_time
         /\ session'.tokens.local_time_base = session.tokens.local_time_base)
        => get_sync_time(session'.tokens, now')[1] >= get_sync_time(session.tokens, now)[1]]_vars

\* get_sync_time() called a second after the sync time 1335777573 was set.
C13_Witness ==
  /\ last.op = "get_sync_time"
  /\ session.tokens.sync_time = Some(1335777573)
  /\ session.tokens.local_time_base = Some(0)
  /\ now = 1
  /\ last.result[1] = Some(1335777574)

\* C14: clear_partner_tokens() makes partner_id, partner_token and the sync
\* time absent and leaves user_id, user_token and both keys as they were;
\* clear_user_tokens() makes user_id and user_token absent and leaves
\* partner_id, partner_token, the sync time and both keys as they were.
C14_ClearFrames ==
  [][/\ last'.op = "clear_partner_tokens" =>
          /\ session'.tokens.partner_id = None
          /\ session'.tokens.partner_token = None
          /\ session'.tokens.sync_time = None
          /\ session'.tokens.local_time_base = None
          /\ get_sync_time(session'.tokens, now') = None
          /\ session'.tokens.user_id = session.tokens.user_id
          /\ session'.tokens.user_token = session.tokens.user_token
          /\ session'.tokens.encrypt_key = session.tokens.encrypt_key
          /\ session'.tokens.decrypt_key = session.tokens.decrypt_key
     /\ last'.op = "clear_user_tokens" =>
          /\ session'.tokens.user_id = None
          /\ session'.tokens.user_token = None
          /\ session'.tokens.partner_id = session.tokens.partner_id
          /\ session'.tokens.partner_token = session.tokens.partner_token
          /\ session'.tokens.sync_time = session.tokens.sync_time
          /\ session'.tokens.local_time_base = session.tokens.local_time_base
          /\ get_sync_time(session'.tokens, now') = get_sync_time(session.tokens, now)
          /\ session'.tokens.encrypt_key = session.tokens.encrypt_key
          /\ session'.tokens.decrypt_key = session.tokens.decrypt_key]_vars

\* clear_user_tokens() has run on a session that keeps its partner tokens and
\* its sync time, and whose earlier build had put the user id in the query.
C14_Witness ==
  /\ last.op = "clear_user_tokens"
  /\ session.tokens.user_token = None
  /\ session.tokens.partner_token = Some("PT1")
  /\ session.tokens.partner_id = Some("42")
  /\ session.tokens.sync_time = Some(1335777573)
  /\ "user_id" \in DOMAIN session.args

\* C15, as the spec has it: after response() has met InvalidAuthToken on a
\* session with partner tokens, user tokens and a sync time, get_sync_time()
\* returns what it would have returned before, the sync time last set.
C15_SyncTimeSurvivesExpiry ==
  (/\ last.op \in {"response", "login"}
   /\ IsSome(last.built)
   /\ IsInvalidAuthToken(last.result[1])
   /\ IsSome(last.built[1].tokens.partner_token)
   /\ IsSome(last.built[1].tokens.user_token)
   /\ IsSome(last.built[1].tokens.sync_time))
  => get_sync_time(session.tokens, now) = get_sync_time(last.built[1].tokens, now)

\* C15, amended: after response() has met InvalidAuthToken on a session with
\* partner tokens, user tokens and a sync time, the sync time is cleared with
\* the partner tokens and get_sync_time() returns nothing.
C15_SyncTimeClearedOnExpiry ==
  (/\ last.op \in {"response", "login"}
   /\ IsSome(last.built)
   /\ IsInvalidAuthToken(last.result[1])
   /\ IsSome(last.built[1].tokens.partner_token)
   /\ IsSome(last.built[1].tokens.user_token)
   /\ IsSome(last.built[1].tokens.sync_time))
  => /\ session.tokens.sync_time = None
     /\ session.tokens.local_time_base = None
     /\ get_sync_time(session.tokens, now) = None

\* response() has met InvalidAuthToken, a second after the sync time was set,
\* on a session that held both token pairs and the sync time 1335777573.
C15_Witness ==
  /\ last.op = "response"
  /\ IsSome(last.built)
  /\ IsInvalidAuthToken(last.result[1])
  /\ last.built[1].tokens.partner_token = Some("PT1")
  /\ last.built[1].tokens.user_token = Some("UT1")
  /\ get_sync_time(last.built[1].tokens, now) = Some(1335777574)
  /\ get_sync_time(session.tokens, now) = None

\* C16: a session created from a Partner by init_session has encrypt_key and
\* decrypt_key equal to the partner's encrypt and decrypt passwords, has
\* partner_id, partner_token, user_id, user_token and the sync time all
\* absent, has the endpoint https://<endpoint_host>/services/json, and its
\* creation has exchanged nothing with the transport.
C16_FreshSession ==
  last.op = "init_session" =>
    /\ session.tokens.encrypt_key = last.partner.encrypt_password
    /\ session.tokens.decrypt_key = last.partner.decrypt_password
    /\ session.tokens.partner_id = None
    /\ session.tokens.partner_token = None
    /\ session.tokens.user_id = None
    /\ session.tokens.user_token = None
    /\ session.tokens.sync_time = None
    /\ session.tokens.local_time_base = None
    /\ get_sync_time(session.tokens, now) = None
    /\ session.endpoint_url = "https://" \o last.partner.endpoint_host \o "/services/json"
    /\ last.reply = None
    /\ last.built = None

\* The session of the Desktop AIR profile, created.
C16_Witness ==
  /\ last.op = "init_session"
  /\ last.partner.username = "pandora one"
  /\ last.partner.endpoint_host = "internal-tuner.pandora.com"
  /\ session.tokens.encrypt_key = "2%3WCL*JU$MP]4"
  /\ session.tokens.decrypt_key = "U#IO$RZPAB%VX2"
  /\ session.endpoint_url = "https://internal-tuner.pandora.com/services/json"

\* C17: after any sequence of session operations the session's encrypt_key
\* and decrypt_key are the encrypt and decrypt passwords of the profile it
\* was created from, and so are those of every request built from it.
C17_KeysImmutable ==
  /\ session.tokens.encrypt_key = ThePartner.encrypt_password
  /\ session.tokens.decrypt_key = ThePartner.decrypt_password
  /\ IsSome(last.built) =>
       /\ last.built[1].tokens.encrypt_key = ThePartner.encrypt_password
       /\ last.built[1].tokens.decrypt_key = ThePartner.decrypt_password

\* A session that has been given both token pairs, has built, has lost its
\* tokens to InvalidAuthToken and has been given partner tokens again, at
\* the second 1.
C17_Witness ==
  /\ session.tokens.encrypt_key = "6#26FRL$ZWD"
  /\ session.tokens.decrypt_key = "R=U!LH$O2B#"
  /\ "user_id" \in DOMAIN session.args
  /\ session.tokens.user_id = None
  /\ session.tokens.partner_token = Some("PT1")
  /\ session.tokens.local_time_base = Some(1)
  /\ last.op = "login"
  /\ last.result[1].tag = "Ok"

\* C18: update_partner_tokens with a partner login response sets partner_id
\* and partner_token to the response's values and the sync time, captured at
\* the instant of the call, to the decimal number that the decrypted
\* sync_time field holds after its first four bytes; when what follows them
\* is not valid UTF-8 or is no unsigned decimal number (nothing, letters, a
\* sign other than a leading '+', a space, digits that are not ASCII, a number
\* above u64::MAX), the sync time is set to 0 and nothing is raised.
\* (The field is one that decrypt returns from: its bytes are whole blocks;
\* the numbers of the model that fit a u64 have at most nineteen digits after
\* their leading zeros.)
C18_UpdatePartnerTokens ==
  (/\ last.op = "update_partner_tokens"
   /\ ((Len(Utf8(last.result[1].v.sync_time)) + 1) \div 2) % 8 = 0) =>
    LET r      == last.result[1].v
        d      == decrypt(session.tokens.decrypt_key, Utf8(r.sync_time)).bytes
        rem    == SubSeq(d, 5, Len(d))
        digits == IF Len(rem) > 1 /\ rem[1] = 43 THEN Tail(rem) ELSE rem
        number == /\ Utf8Valid(rem)
                  /\ digits # << >>
                  /\ \A i \in 1..Len(digits) : digits[i] \in 48..57
                  /\ Len(digits) - Cardinality({i \in 1..Len(digits) :
                                                  \A j \in 1..i : digits[j] = 48}) <= 19
        known  == CASE r.sync_time = "6923e263a8c3ac690646146b50065f43" -> 1335777573
                    [] r.sync_time = "0ab2a18806cf1f9c" -> 12
                    [] r.sync_time = "fc3e4a62c48e4f23" -> 7
                    [] r.sync_time = "ce6a89a68f337d3830cf8aaae37280c8" -> 13
                    [] r.sync_time = "88702d81756cb967" -> 1234
                    [] r.sync_time = "5db1b660676011b70bb7cc8c111f46912e077c4d6d9575d1" -> 1
                    [] OTHER -> 0
    IN  /\ ~panicked
        /\ session.tokens.partner_id = Some(r.partner_id)
        /\ session.tokens.partner_token = Some(r.partner_auth_token)
        /\ session.tokens.local_time_base = Some(now)
        /\ session.tokens.sync_time = Some(IF number THEN DigitsValue(digits) ELSE 0)
        /\ session.tokens.sync_time = Some(known)
        /\ get_sync_time(session.tokens, now) = Some(known)

\* update_partner_tokens applied, at the second 1 and on a session that held
\* the sync time 1335777573, to a response whose sync_time field decrypts to
\* the salt and two bytes that are no UTF-8.
C18_Witness ==
  /\ last.op = "update_partner_tokens"
  /\ last.result[1].v = [partner_id |-> "43", partner_auth_token |-> "PT2",
                         sync_time |-> "a92f6c2e9da345bc"]
  /\ now = 1
  /\ session.tokens.partner_id = Some("43")
  /\ session.tokens.partner_token = Some("PT2")
  /\ session.tokens.sync_time = Some(0)
  /\ session.tokens.local_time_base = Some(1)

\* C19: response() changes the session's tokens in the InvalidAuthToken case
\* only: on success, on an API error of another kind (an unknown code, a
\* missing code, PlaylistExceeded, the success without payload that does not
\* decode), on a failure to send, on a non-success HTTP status, on a body that
\* is no envelope and on a request that does not serialize, every token field
\* and the sync time are after the call what they were before it, and the
\* outcome is returned as it is, a tagged result.  (A call whose build aborts,
\* the parameters serializing to no JSON object, returns nothing; the tokens
\* and the sync time are what they were then too.)
C19_OnlyInvalidAuthTokenClears ==
  [][(last'.op = "response" /\ ~IsInvalidAuthToken(last'.result[1])) =>
       LET res == last'.result[1]
           api(name, code, message) ==
             [tag |-> "Err",
              v   |-> [variant |-> "PandoraJsonRequestError",
                       source  |-> [kind    |-> [name |-> name, code |-> code],
                                    message |-> message]]]
       IN  /\ session'.tokens = session.tokens
           /\ get_sync_time(session'.tokens, now') = get_sync_time(session.tokens, now)
           /\ IF panicked'
              THEN last'.built = None /\ ~IsObject(last'.req.fields)
              ELSE IF last'.built = None
              THEN res = [tag |-> "Err",
                          v   |-> [variant |-> "JsonSerializationError", source |-> "serialize"]]
              ELSE LET reply == last'.reply[1]
                       e     == reply.envelope
                   IN  IF reply.transport # "ok"
                       THEN res = [tag |-> "Err",
                                   v   |-> [variant |-> "HttpIoError", source |-> reply.transport]]
                       ELSE IF e.stat = "Ok"
                       THEN res = IF IsSome(e.result) THEN [tag |-> "Ok", v |-> e.result[1]]
                                  ELSE api("UnknownErrorMessage", 0, Some("Invalid JSON content."))
                       ELSE /\ e.code # Some(1001)
                            /\ res = CASE e.code = None -> api("UnknownErrorMessage", 0, e.message)
                                       [] e.code = Some(9999) -> api("UnknownErrorCode", 9999, e.message)
                                       [] e.code = Some(1039) -> api("PlaylistExceeded", 0, e.message)]_vars

\* response() has met the failure of an unknown code, a second after the sync
\* time was set, on a session that holds both token pairs, and holds them
\* still.
C19_Witness ==
  /\ last.op = "response"
  /\ IsSome(last.reply)
  /\ last.reply[1].envelope.stat = "Fail"
  /\ last.reply[1].envelope.code = Some(9999)
  /\ last.result[1].tag = "Err"
  /\ last.result[1].v.source.kind = [name |-> "UnknownErrorCode", code |-> 9999]
  /\ session.tokens.partner_token = Some("PT1")
  /\ session.tokens.user_token = Some("UT1")
  /\ get_sync_time(session.tokens, now) = Some(1335777574)
  /\ last.built[1].tokens = session.tokens

\* C20, as the spec has it: each call of response() builds exactly once,
\* sends at most once and then returns, whatever the outcome.
C20_OneBuildOneExchange ==
  last.op \in {"response", "login"} =>
    /\ IsSome(last.built)
    /\ last.sent <= 1
    /\ IsSome(last.result)
    /\ ~panicked

\* C20, amended: each call of response() builds at most once and makes at
\* most one HTTP exchange: the built request is handed to the transport at
\* most once, and not at all when nothing was built.  When the parameters do
\* not serialize, nothing is built and the call returns the serialization
\* error at once; when they serialize to a value that is no JSON object, the
\* one build aborts, so that nothing is sent and the call does not return;
\* otherwise the call builds once and returns after the one sending, whatever
\* the outcome: InvalidAuthToken, a transport failure, PlaylistExceeded or any
\* other.  (The encryption key is the profile's, which the cipher takes.)
C20_AtMostOneExchange ==
  last.op \in {"response", "login"} =>
    /\ last.sent <= 1
    /\ last.built = None => (last.sent = 0 /\ last.reply = None)
    /\ IF ~last.req.serializable
       THEN /\ last.built = None
            /\ ~panicked
            /\ last.result[1] = [tag |-> "Err",
                                 v   |-> [variant |-> "JsonSerializationError",
                                          source |-> "serialize"]]
       ELSE IF ~IsObject(last.req.fields)
       THEN /\ last.built = None
            /\ panicked
       ELSE /\ IsSome(last.built)
            /\ IsSome(last.result)
            /\ ~panicked

\* response() has met the failure of too many playlist requests and has
\* returned it, the request sent once.
C20_Witness ==
  /\ last.op = "response"
  /\ IsSome(last.built)
  /\ last.reply[1].envelope.code = Some(1039)
  /\ last.result[1].tag = "Err"
  /\ last.result[1].v.source.kind = [name |-> "PlaylistExceeded", code |-> 0]
  /\ last.sent = 1

\* ---------------------------------------------------------------------------
\* The codec (SpecCrypt).
\* ---------------------------------------------------------------------------
\* C21: encrypt(key, plaintext) pads the plaintext bytes with the byte 2 up
\* to the next multiple of 8 bytes (nothing when the length is a multiple of
\* 8 already, 0 included), encrypts each block of 8 bytes on its own, and
\* returns lowercase hexadecimal of length exactly 2 * roundup8(len): the
\* result has that length and only the characters 0-9 and a-f, the 16
\* characters of each block are what encrypt returns for that block of the
\* padded plaintext alone, and the bytes it stands for decrypt, block by
\* block, to the padded plaintext.  (The key is one the cipher takes, of 4
\* to 56 bytes; under any other key the key setup fails and encrypt aborts,
\* as the spec has it.)
C21_EncryptPadsAndHexes ==
  last.op = "encrypt" =>
    LET s      == last.plaintext[1]
        h      == last.hex[1]
        m      == 8 * ((Len(s) + 7) \div 8)
        padded == s \o [j \in 1..(m - Len(s)) |-> 2]
    IN  IF Len(Utf8(last.key)) < 4 \/ Len(Utf8(last.key)) > 56
        THEN panicked /\ last.hex = None
        ELSE /\ ~panicked
             /\ Len(h) = 2 * m
             /\ \A j \in 1..Len(h) : (h[j] >= 48 /\ h[j] <= 57) \/ (h[j] >= 97 /\ h[j] <= 102)
             /\ \A i \in 1..(m \div 8) :
                  SubSeq(h, 16 * i - 15, 16 * i)
                    = encrypt(last.key, SubSeq(padded, 8 * i - 7, 8 * i)).hex
             /\ EcbBlocks(new_from_slice(last.key).v, HexBytes(h), FALSE) = padded

\* Eleven letters have been encrypted, to 32 characters.
C21_Witness ==
  /\ last.op = "encrypt"
  /\ last.key = "6#26FRL$ZWD"
  /\ last.plaintext = Some(<< 97, 98, 99, 100, 101, 102, 103, 104, 105, 106, 107 >>)
  /\ Len(last.hex[1]) = 32

\* C22: for every valid key k and every input s with no byte equal to 2,
\* decrypt(k, encrypt(k, s)) is the bytes of s exactly, for every length of
\* s, the multiples of 8 and 0 included.
C22_RoundTrip ==
  (/\ last.op = "decrypt"
   /\ Len(Utf8(last.key)) >= 4
   /\ Len(Utf8(last.key)) <= 56
   /\ IsSome(last.plaintext)
   /\ \A j \in 1..Len(last.plaintext[1]) : last.plaintext[1][j] # 2) =>
    /\ ~panicked
    /\ last.bytes = last.plaintext

\* Sixteen letters, two whole blocks, have been encrypted and decrypted.
C22_Witness ==
  /\ last.op = "decrypt"
  /\ last.key = "6#26FRL$ZWD"
  /\ IsSome(last.plaintext)
  /\ Len(last.plaintext[1]) = 16
  /\ \A j \in 1..16 : last.plaintext[1][j] # 2
  /\ last.bytes = last.plaintext

\* C23: encrypting the plaintext of the test of crypt.rs (six bytes that are
\* not ASCII and then the digits 1477631903) under the key "R=U!LH$O2B#"
\* gives exactly "4a6b45612b018614c92c50dc73462bbd".
C23_TestVector ==
  (/\ last.op = "encrypt"
   /\ last.key = "R=U!LH$O2B#"
   /\ last.plaintext = Some(<< 195, 168, 46, 60, 195, 154, 49, 52, 55, 55, 54, 51, 49, 57, 48, 51 >>)) =>
    last.hex = Some(<< 52, 97, 54, 98, 52, 53, 54, 49, 50, 98, 48, 49, 56, 54, 49, 52,
                       99, 57, 50, 99, 53, 48, 100, 99, 55, 51, 52, 54, 50, 98, 98, 100 >>)

\* The plaintext of the test has been encrypted under the key of the test.
C23_Witness ==
  /\ last.op = "encrypt"
  /\ last.key = "R=U!LH$O2B#"
  /\ last.plaintext = Some(<< 195, 168, 46, 60, 195, 154, 49, 52, 55, 55, 54, 51, 49, 57, 48, 51 >>)
  /\ Len(last.hex[1]) = 32

\* C24, as the spec has it: decrypt(key, hex) decodes the hex string two
\* characters at a time, a pair that is not two hexadecimal digits becoming
\* the byte 0 (a last character on its own is decoded as one digit), decrypts
\* block by block, and returns the decrypted buffer cut at the first byte
\* equal to 2, whole when there is none; so the result holds no byte 2.
\* (The key is one the cipher takes.)
C24_MalformedPairsAreZero ==
  (/\ last.op = "decrypt"
   /\ Len(Utf8(last.key)) >= 4
   /\ Len(Utf8(last.key)) <= 56
   /\ last.plaintext = None
   /\ ((Len(last.hex[1]) + 1) \div 2) % 8 = 0) =>
    LET h        == last.hex[1]
        digit(c) == HexVal(c) >= 0
        pair(i)  == IF 2 * i > Len(h)
                    THEN (IF digit(h[2 * i - 1]) THEN HexVal(h[2 * i - 1]) ELSE 0)
                    ELSE IF digit(h[2 * i - 1]) /\ digit(h[2 * i])
                    THEN 16 * HexVal(h[2 * i - 1]) + HexVal(h[2 * i])
                    ELSE 0
        decoded  == AsSeq([i \in 1..((Len(h) + 1) \div 2) |-> pair(i)])
        buffer   == EcbBlocks(new_from_slice(last.key).v, decoded, FALSE)
        twos     == {i \in 1..Len(buffer) : buffer[i] = 2}
        cut      == IF twos = {} THEN Len(buffer)
                    ELSE (CHOOSE i \in twos : \A j \in twos : i <= j) - 1
    IN  /\ ~panicked
        /\ last.bytes = Some(SubSeq(buffer, 1, cut))
        /\ \A j \in 1..Len(last.bytes[1]) : last.bytes[1][j] # 2

\* ---------------------------------------------------------------------------
\* The token pairs and the partner login (Spec, SpecMerges, SpecUpdatePartner).
\* ---------------------------------------------------------------------------
\* C25: in every state reached from a new session by partner-login merges,
\* user-login merges, clear_partner_tokens, clear_user_tokens and the
\* handling of responses, partner_id is present if and only if partner_token
\* is, and user_id is present if and only if user_token is.
C25_PairsTogether ==
  /\ IsSome(session.tokens.partner_id) <=> IsSome(session.tokens.partner_token)
  /\ IsSome(session.tokens.user_id) <=> IsSome(session.tokens.user_token)

\* clear_user_tokens has cleared the user pair of a session that holds the
\* partner pair and that was built while it held the user pair.
C25_Witness ==
  /\ last.op = "clear_user_tokens"
  /\ MapGet(session.args, "user_id") = Some("7")
  /\ session.tokens.partner_id = Some("42")
  /\ session.tokens.partner_token = Some("PT1")
  /\ session.tokens.user_id = None
  /\ session.tokens.user_token = None

\* C26: Partner::login merges the partner tokens into the session exactly
\* when the partner-login call succeeds.  After a login that returned Ok,
\* partner_id and partner_token are those of the response and get_sync_time()
\* is present and at least the server time the response's sync_time decrypts
\* to (1335777573); after a login that returned the InvalidAuthToken error
\* the partner pair and the sync time are absent; after a login that returned
\* any other error the tokens are what they were before the call.
C26_LoginMergesOnSuccess ==
  [][last'.op = "login" =>
       LET res == last'.result[1]
           t   == session'.tokens
       IN  /\ ~panicked'
           /\ IF res.tag = "Ok"
              THEN /\ t.partner_id = Some(res.v.partner_id)
                   /\ t.partner_token = Some(res.v.partner_auth_token)
                   /\ res.v.sync_time = "6923e263a8c3ac690646146b50065f43"
                   /\ get_sync_time(t, now') # None
                   /\ get_sync_time(t, now')[1] >= 1335777573
              ELSE IF IsInvalidAuthToken(res)
              THEN /\ t.partner_id = None
                   /\ t.partner_token = None
                   /\ get_sync_time(t, now') = None
              ELSE t = session.tokens]_vars

\* login has succeeded on a session that held no partner token, a second
\* after the start, and the session holds the tokens of the response.
C26_Witness ==
  /\ last.op = "login"
  /\ last.result[1].tag = "Ok"
  /\ last.built[1].tokens.partner_token = None
  /\ now = 1
  /\ session.tokens.partner_id = Some("42")
  /\ session.tokens.partner_token = Some("PT1")
  /\ session.tokens.sync_time = Some(1335777573)
  /\ session.tokens.local_time_base = Some(1)
  /\ get_sync_time(session.tokens, now) = Some(1335777573)

\* C27: applying update_partner_tokens with a partner-login response to a
\* session that has already merged that response, by login or by
\* update_partner_tokens, at the same instant or an earlier one, is idempotent
\* on the token state.  Every application leaves partner_id and partner_token
\* those of the response and the stored sync-time base the number its
\* sync_time decrypts to (1335777573), whatever the session held, and leaves
\* the user tokens and the keys what they were; so on a session that holds
\* what an earlier application of the response has stored, nothing of the
\* tokens changes but the captured instant, which is renewed.
C27_MergeAgainIsIdempotent ==
  last.op = "update_partner_tokens" =>
    LET r      == last.result[1].v
        before == last.before
        t      == session.tokens
    IN  /\ ~panicked
        /\ t.partner_id = Some(r.partner_id)
        /\ t.partner_token = Some(r.partner_auth_token)
        /\ t.sync_time = Some(1335777573)
        /\ t.user_id = before.user_id
        /\ t.user_token = before.user_token
        /\ t.encrypt_key = before.encrypt_key
        /\ t.decrypt_key = before.decrypt_key
        /\ t.local_time_base = Some(now)
        /\ (/\ before.partner_id = Some(r.partner_id)
            /\ before.partner_token = Some(r.partner_auth_token)
            /\ before.sync_time = Some(1335777573)) =>
             t = [before EXCEPT !.local_time_base = Some(now)]

\* update_partner_tokens has been applied again, a second after the start,
\* with the response of the documentation to a session that held the user
\* pair and what a merge of that response at the start had stored; the
\* session holds the same tokens, the instant renewed.
C27_Witness ==
  /\ last.op = "update_partner_tokens"
  /\ last.result[1].v.partner_auth_token = "PT1"
  /\ last.before.partner_id = Some("42")
  /\ last.before.partner_token = Some("PT1")
  /\ last.before.sync_time = Some(1335777573)
  /\ last.before.local_time_base = Some(0)
  /\ last.before.user_token = Some("UT1")
  /\ now = 1
  /\ session.tokens = [last.before EXCEPT !.local_time_base = Some(1)]

\* C28, as the spec has it: in every state reached from a new session by
\* partner-login merges, user-login merges, clear_partner_tokens,
\* clear_user_tokens and the handling of responses, with no set_sync_time or
\* clear_sync_time of the caller's own, a sync time is present if and only if
\* a partner token is: the stored base, the captured instant and what
\* get_sync_time() returns are present together with the partner token and
\* absent together with it.
C28_SyncTimeWithPartnerToken ==
  /\ IsSome(session.tokens.sync_time) <=> IsSome(session.tokens.partner_token)
  /\ IsSome(session.tokens.local_time_base) <=> IsSome(session.tokens.partner_token)
  /\ IsSome(get_sync_time(session.tokens, now)) <=> IsSome(session.tokens.partner_token)

\* C28, amended: in every such state in which no partner-login merge has
\* aborted, a sync time is present if and only if a partner token is.  A
\* partner-login merge (update_partner_tokens, or the one of login) of a
\* response whose sync_time does not decode to a whole number of blocks
\* aborts with the partner token of the response set and the sync time what
\* it was before the merge: absent on a session that held none.
C28_SyncTimeWithPartnerTokenUnlessAborted ==
  LET t == session.tokens
  IN  IF panicked /\ last.op \in {"update_partner_tokens", "login"}
      THEN LET r      == last.result[1].v
               before == IF last.op = "login" THEN last.built[1].tokens ELSE last.before
           IN  /\ ((Len(Utf8(r.sync_time)) + 1) \div 2) % 8 # 0
               /\ t.partner_id = Some(r.partner_id)
               /\ t.partner_token = Some(r.partner_auth_token)
               /\ t.sync_time = before.sync_time
               /\ t.local_time_base = before.local_time_base
               /\ IsSome(before.partner_token) <=> IsSome(before.sync_time)
      ELSE /\ IsSome(t.sync_time) <=> IsSome(t.partner_token)
           /\ IsSome(t.local_time_base) <=> IsSome(t.partner_token)
           /\ IsSome(get_sync_time(t, now)) <=> IsSome(t.partner_token)

\* A response has met the failure of an expired token on a session that was
\* built while it held the partner token, and the session holds neither the
\* partner token nor a sync time.
C28_Witness ==
  /\ last.op = "response"
  /\ IsInvalidAuthToken(last.result[1])
  /\ last.built[1].tokens.partner_token = Some("PT1")
  /\ last.built[1].tokens.sync_time = Some(1335777573)
  /\ session.tokens.partner_token = None
  /\ session.tokens.sync_time = None
  /\ get_sync_time(session.tokens, now) = None

\* C29: decrypt cuts the decrypted buffer at the first byte equal to 2
\* before update_partner_tokens leaves out the first four bytes.  So a
\* sync_time whose decrypted buffer has a byte 2 among its first four bytes
\* sets the sync-time base to 0, whatever digits follow; and one whose first
\* four bytes hold no 2 and are followed by decimal digits up to the first
\* byte 2 (the padding) or up to the end of the buffer sets the base to
\* exactly the number those digits write.
C29_TruncationBeforeSalt ==
  (/\ last.op = "update_partner_tokens"
   /\ ((Len(Utf8(last.result[1].v.sync_time)) + 1) \div 2) % 8 = 0) =>
    LET buffer == EcbBlocks(new_from_slice(session.tokens.decrypt_key).v,
                            HexBytes(Utf8(last.result[1].v.sync_time)), FALSE)
        twos   == {i \in 1..Len(buffer) : buffer[i] = 2}
        end    == IF twos = {} THEN Len(buffer)
                  ELSE (CHOOSE i \in twos : \A j \in twos : i <= j) - 1
        digits == SubSeq(buffer, 5, end)
    IN  /\ (\E i \in twos : i <= 4) => session.tokens.sync_time = Some(0)
        /\ (/\ end > 4
            /\ end <= 14
            /\ \A i \in 5..end : buffer[i] \in 48..57) =>
             session.tokens.sync_time = Some(DigitsValue(digits))

\* update_partner_tokens has been applied, on a session that held the sync
\* time 1335777573, to a response whose sync_time decrypts to A, the byte 2,
\* BC and the digits 1335777573, and the base is 0.
C29_Witness ==
  /\ last.op = "update_partner_tokens"
  /\ last.result[1].v.sync_time = "f08faadf89ea8a6f0646146b50065f43"
  /\ now = 1
  /\ session.tokens.partner_token = Some(last.result[1].v.partner_auth_token)
  /\ session.tokens.sync_time = Some(0)
  /\ session.tokens.local_time_base = Some(1)

\* C30: decrypt returns a byte string only when the number of bytes decoded
\* from the hex input is a multiple of 8, 0 included; for any other input it
\* aborts.  So update_partner_tokens with such a sync_time aborts after
\* partner_id and partner_token have been overwritten and before the sync
\* time is set: the stored base and the captured instant are what they were.
\* With a sync_time of whole blocks it returns, the sync time set at the
\* instant of the call.
C30_AbortOnPartialBlock ==
  [][last'.op = "update_partner_tokens" =>
       LET r       == last'.result[1].v
           decoded == (Len(Utf8(r.sync_time)) + 1) \div 2
       IN  /\ panicked' <=> decoded % 8 # 0
           /\ session'.tokens.partner_id = Some(r.partner_id)
           /\ session'.tokens.partner_token = Some(r.partner_auth_token)
           /\ IF decoded % 8 # 0
              THEN /\ session'.tokens.sync_time = session.tokens.sync_time
                   /\ session'.tokens.local_time_base = session.tokens.local_time_base
              ELSE /\ IsSome(session'.tokens.sync_time)
                   /\ session'.tokens.local_time_base = Some(now)]_vars

\* update_partner_tokens has aborted, a second after the start, on a
\* sync_time of four bytes: the session holds the partner id and token of the
\* response and the sync time of the login before, captured at the start.
C30_Witness ==
  /\ panicked
  /\ last.op = "update_partner_tokens"
  /\ last.result[1].v = [partner_id |-> "43", partner_auth_token |-> "PT2", sync_time |-> "6923e263"]
  /\ now = 1
  /\ session.tokens.partner_id = Some("43")
  /\ session.tokens.partner_token = Some("PT2")
  /\ session.tokens.sync_time = Some(1335777573)
  /\ session.tokens.local_time_base = Some(0)
====
